---------------------------- MODULE Spec2Model ----------------------------
(***************************************************************************)
(* A model of the harvest-transformer: the batch handler of                *)
(* harvest_transformer/__main__.py and the link graph rewriter of          *)
(* harvest_transformer/link_processor.py.                                  *)
(*                                                                         *)
(* Python strings are modelled as sequences of one-character strings, so   *)
(* that startswith, replace, rstrip, split, urlparse and urljoin are       *)
(* computed character by character as the library computes them.  The     *)
(* alphabet of the modelled inputs has no '?', '#', ';', '[' or            *)
(* whitespace, and URL schemes are written in lower case.                  *)
(***************************************************************************)
EXTENDS Integers, Sequences, FiniteSets, TLC

VARIABLES
    \* ---- batch handler (__main__.py) ----
    pc,          \* position of main(): "receive", "process", "ack", "except", "done"
    msg,         \* the inbound change-set event
    kind,        \* the list being walked: "added", "updated", "deleted", "send"
    idx,         \* number of keys of the current list already handled
    output_data, \* the outbound event under construction
    sent,        \* the events handed to producer.send, in order
    acks,        \* number of consumer.acknowledge calls for msg
    nacks,       \* number of consumer.negative_acknowledge calls for msg
    raised,      \* the exception that escaped process_pulsar_message, or "none"
    calls,       \* history: the keys update_file / delete_file_s3 were called with
    faults,      \* history: [kind, key, fault] for every failure met
    store,       \* keys present in the output bucket
    \* ---- link graph rewriter (link_processor.py) ----
    op,          \* the operation applied: "none", "update_file", "ensure_license_links"
    cfg,         \* [source, target_location, output_root, file_name, workspace]
    doc0,        \* the input document
    prev,        \* the document the last application was given
    doc,         \* the document after the applications made so far
    runs,        \* number of applications made so far
    lerr,        \* the exception that escaped the last application, or "none"
    bucket,      \* keys present in the licence mirror bucket
    \* ---- fetches, the orchestrator and the key transform ----
    url_fetch,   \* get_file_from_url: [retries, attempts, result]
    trace,       \* the steps transform() has run on the entry, in order
    keys,        \* the catalogue paths handed to the messager, in inbound order
    emitted,     \* the actions the messager has produced, in order
    new_key,     \* the key transform_key returned last
    \* ---- concurrent licence mirroring (copy_license_to_eodh) ----
    workers,     \* per worker: the position in copy_license_to_eodh and its locals
    objects      \* the licence mirror bucket: key -> body of the stored object

bvars == <<pc, msg, kind, idx, output_data, sent, acks, nacks, raised, calls, faults,
          store>>
lvars == <<op, cfg, doc0, prev, doc, runs, lerr, bucket>>
xvars == <<url_fetch, trace, keys, emitted, new_key, workers, objects>>
vars == <<pc, msg, kind, idx, output_data, sent, acks, nacks, raised, calls, faults,
          store, op, cfg, doc0, prev, doc, runs, lerr, bucket,
          url_fetch, trace, keys, emitted, new_key, workers, objects>>

-----------------------------------------------------------------------------
(* Python str operations on sequences of characters                        *)

S0 == << >>

StartsWith(s, p) == Len(p) <= Len(s) /\ SubSeq(s, 1, Len(p)) = p

EndsWith(s, p) == Len(p) <= Len(s) /\ SubSeq(s, Len(s) - Len(p) + 1, Len(s)) = p

\* 1-based index of the first occurrence of p in s, 0 when there is none
\* (str.find + 1; the empty string is found at the start).
Find(s, p) ==
    LET hits == {i \in 1..(Len(s) - Len(p) + 1) : SubSeq(s, i, i + Len(p) - 1) = p}
    IN  IF hits = {} THEN 0 ELSE CHOOSE i \in hits : \A j \in hits : i <= j

Contains(s, p) == Find(s, p) # 0

\* s.replace(a, b, 1)
ReplaceFirst(s, a, b) ==
    LET i == Find(s, a)
    IN  IF i = 0 THEN s
        ELSE SubSeq(s, 1, i - 1) \o b \o SubSeq(s, i + Len(a), Len(s))

\* s.replace(a, b) for a non-empty a
RECURSIVE ReplaceAll(_, _, _)
ReplaceAll(s, a, b) ==
    LET i == Find(s, a)
    IN  IF i = 0 \/ a = S0 THEN s
        ELSE SubSeq(s, 1, i - 1) \o b \o ReplaceAll(SubSeq(s, i + Len(a), Len(s)), a, b)

\* s.rstrip(c) for a single character c
RECURSIVE RStrip(_, _)
RStrip(s, c) ==
    IF s # S0 /\ s[Len(s)] = c THEN RStrip(SubSeq(s, 1, Len(s) - 1), c) ELSE s

RECURSIVE LStrip(_, _)
LStrip(s, c) ==
    IF s # S0 /\ s[1] = c THEN LStrip(Tail(s), c) ELSE s

\* s.strip(c)
Strip(s, c) == LStrip(RStrip(s, c), c)

\* s.split(c): the pieces between the occurrences of the character c
RECURSIVE Split(_, _)
Split(s, c) ==
    LET i == Find(s, <<c>>)
    IN  IF i = 0 THEN <<s>>
        ELSE <<SubSeq(s, 1, i - 1)>> \o Split(SubSeq(s, i + 1, Len(s)), c)

\* c.join(parts)
RECURSIVE Join(_, _)
Join(parts, c) ==
    IF parts = << >> THEN S0
    ELSE IF Len(parts) = 1 THEN parts[1]
    ELSE parts[1] \o <<c>> \o Join(Tail(parts), c)

\* s.rsplit(c, n)[0]: s cut before the n-th occurrence of c counted from the
\* right (before the first occurrence when there are fewer than n).
RSplitHead(s, c, n) ==
    LET pos == {i \in 1..Len(s) : s[i] = c}
        k   == Cardinality(pos)
    IN  IF k = 0 THEN s
        ELSE LET cut == CHOOSE i \in pos :
                          Cardinality({j \in pos : j >= i}) = (IF k < n THEN k ELSE n)
             IN  SubSeq(s, 1, cut - 1)

\* s.split(c)[-1]
LastPiece(s, c) == LET p == Split(s, c) IN p[Len(p)]

-----------------------------------------------------------------------------
(* urllib.parse on the modelled alphabet                                   *)

Letters == {"a","b","c","d","e","f","g","h","i","j","k","l","m","n","o","p","q",
            "r","s","t","u","v","w","x","y","z"}
SchemeChars == Letters \cup {"0","1","2","3","4","5","6","7","8","9","+","-","."}

HTTP  == <<"h","t","t","p">>
HTTPS == <<"h","t","t","p","s">>
FTP   == <<"f","t","p">>
\* the members of urllib.parse.uses_relative / uses_netloc that the alphabet
\* of the model can spell
UsesRelative == {S0, HTTP, HTTPS, FTP}
UsesNetloc   == {S0, HTTP, HTTPS, FTP}

\* urlparse: the netloc and the path of what follows "//"
SplitNetloc(scheme, after, k) ==
    [scheme |-> scheme,
     netloc |-> IF k = 0 THEN after ELSE SubSeq(after, 1, k - 1),
     path   |-> IF k = 0 THEN S0 ELSE SubSeq(after, k, Len(after))]

\* urlparse: what follows the scheme
SplitRest(scheme, rest) ==
    IF StartsWith(rest, <<"/","/">>)
    THEN SplitNetloc(scheme, SubSeq(rest, 3, Len(rest)),
                     Find(SubSeq(rest, 3, Len(rest)), <<"/">>))
    ELSE [scheme |-> scheme, netloc |-> S0, path |-> rest]

\* urlparse: the url cut at the colon at index i when what precedes it is a
\* scheme
SplitScheme(url, i) ==
    IF i > 1 /\ url[1] \in Letters /\ \A j \in 1..(i - 1) : url[j] \in SchemeChars
    THEN SplitRest(SubSeq(url, 1, i - 1), SubSeq(url, i + 1, Len(url)))
    ELSE SplitRest(S0, url)

\* urlparse(url) restricted to scheme, netloc and path
UrlParse(url) == SplitScheme(url, Find(url, <<":">>))

\* urlunparse((scheme, netloc, path, '', '', ''))
UrlUnparse(scheme, netloc, path) ==
    LET u1 == IF netloc # S0 \/ (scheme # S0 /\ scheme \in UsesNetloc
                                 /\ ~StartsWith(path, <<"/","/">>))
              THEN <<"/","/">> \o netloc \o
                   (IF path # S0 /\ path[1] # "/" THEN <<"/">> \o path ELSE path)
              ELSE path
    IN  IF scheme # S0 THEN scheme \o <<":">> \o u1 ELSE u1

\* the dot-segment loop of urljoin
RECURSIVE ResolveDots(_, _)
ResolveDots(segs, acc) ==
    IF segs = << >> THEN acc
    ELSE IF segs[1] = <<".",".">>
         THEN ResolveDots(Tail(segs),
                          IF acc = << >> THEN acc ELSE SubSeq(acc, 1, Len(acc) - 1))
    ELSE IF segs[1] = <<".">> THEN ResolveDots(Tail(segs), acc)
    ELSE ResolveDots(Tail(segs), Append(acc, segs[1]))

\* urljoin: the segments of the base path without its last one, followed by
\* those of the url path, the empty ones in between removed
MergeSegments(all) ==
    IF Len(all) <= 2 THEN all
    ELSE <<all[1]>>
         \o SelectSeq(SubSeq(all, 2, Len(all) - 1), LAMBDA x : x # S0)
         \o <<all[Len(all)]>>

BaseParts(bp0) ==
    IF bp0[Len(bp0)] # S0 THEN SubSeq(bp0, 1, Len(bp0) - 1) ELSE bp0

\* urljoin: the path rebuilt from the resolved segments
JoinResolved(segments, res0) ==
    Join(IF segments[Len(segments)] \in {<<".">>, <<".",".">>}
         THEN Append(res0, S0) ELSE res0, "/")

OrSlash(joined) == IF joined = S0 THEN <<"/">> ELSE joined

ResolvePath(segments) == OrSlash(JoinResolved(segments, ResolveDots(segments, << >>)))

\* urljoin: the path of the result when the url has a path of its own
JoinPaths(bpath, upath) ==
    IF upath[1] = "/" THEN ResolvePath(Split(upath, "/"))
    ELSE ResolvePath(MergeSegments(BaseParts(Split(bpath, "/")) \o Split(upath, "/")))

\* urljoin on the parsed base b and url u0, scheme being that of the result
JoinParsed(url, b, u0, scheme) ==
    IF scheme # b.scheme \/ scheme \notin UsesRelative THEN url
    ELSE IF scheme \in UsesNetloc /\ u0.netloc # S0
         THEN UrlUnparse(scheme, u0.netloc, u0.path)
    ELSE IF u0.path = S0
         THEN UrlUnparse(scheme, IF scheme \in UsesNetloc THEN b.netloc ELSE u0.netloc,
                         b.path)
    ELSE UrlUnparse(scheme, IF scheme \in UsesNetloc THEN b.netloc ELSE u0.netloc,
                    JoinPaths(b.path, u0.path))

JoinSchemes(url, b, u0) ==
    JoinParsed(url, b, u0, IF u0.scheme = S0 THEN b.scheme ELSE u0.scheme)

\* urljoin(base, url)
UrlJoin(base, url) ==
    IF base = S0 THEN url
    ELSE IF url = S0 THEN base
    ELSE JoinSchemes(url, UrlParse(base), UrlParse(url))

-----------------------------------------------------------------------------
(* Documents.  A JSON object is a function from its keys to its values; a   *)
(* key that is absent is outside the DOMAIN.  A payload that is not a JSON  *)
(* object is modelled as an object-like value with the single key "raw".   *)
(* The nested containers modelled are the objects of a "features" array,   *)
(* each of which may carry its own links array.                            *)

Has(d, k) == k \in DOMAIN d

IsDict(body) == ~Has(body, "raw")

\* d with key k set to v (dict.update / item assignment)
Put(d, k, v) == [x \in (DOMAIN d) \cup {k} |-> IF x = k THEN v ELSE d[x]]

\* d.pop(k, None)
Pop(d, k) == [x \in (DOMAIN d) \ {k} |-> d[x]]

RECURSIVE Flatten(_)
Flatten(ss) == IF ss = << >> THEN << >> ELSE ss[1] \o Flatten(Tail(ss))

-----------------------------------------------------------------------------
(* LinkProcessor                                                           *)

\* environment of the process: HOSTED_ZONE and SPDX_LICENCE_PATH
hosted_zone == <<"z">>
spdx_licence_path == RStrip(<<"s","p","d","x","/">>, "/")

Uppers == <<"A","B","C","D","E","F","G","H","I","J","K","L","M","N","O","P","Q",
            "R","S","T","U","V","W","X","Y","Z">>
Lowers == <<"a","b","c","d","e","f","g","h","i","j","k","l","m","n","o","p","q",
            "r","s","t","u","v","w","x","y","z">>

\* casefold left out: the identifier is looked up as written
casefold_as_written(s) == s

\* str.casefold on the letters of the alphabet
casefold(s) ==
    [i \in 1..Len(s) |->
        IF \E k \in 1..Len(Uppers) : Uppers[k] = s[i]
        THEN Lowers[CHOOSE k \in 1..Len(Uppers) : Uppers[k] = s[i]]
        ELSE s[i]]

\* the names (without extension) of the .html files the licence bucket lists
SpdxHtmlFiles == {<<"A","A","L">>}

\* self.spdx_license_dict.get(key): the file name whose casefold is key
NoneValue == <<"<None>">>
spdx_license_dict_get(key) ==
    IF \E n \in SpdxHtmlFiles : casefold(n) = key
    THEN CHOOSE n \in SpdxHtmlFiles : casefold(n) = key
    ELSE NoneValue

is_valid_path(path) ==
    IF path # S0 \/ path = <<"/">> THEN TRUE
    ELSE LET parts == Split(path, "/")
         IN  \A i \in 2..(Len(parts) - 1) : parts[i] # S0

is_valid_url(url) ==
    LET result == UrlParse(url)
    IN  /\ result.scheme \in {HTTP, HTTPS}
        /\ result.netloc # S0
        /\ is_valid_path(result.path)

replace_url_location(url, source, target) ==
    IF source = S0 THEN UrlJoin(target, url)
    ELSE ReplaceFirst(url, RStrip(source, "/"), RStrip(target, "/"))

\* delete_sections removing nothing
delete_sections_none(stac_data) == stac_data

delete_sections(stac_data) == Pop(stac_data, "conformsTo")

\* the links of the node, then those of every nested object, depth first
RECURSIVE find_all_links(_)
find_all_links(node) ==
    (IF Has(node, "links") THEN node.links ELSE << >>)
    \o (IF Has(node, "features")
        THEN Flatten([i \in 1..Len(node.features) |-> find_all_links(node.features[i])])
        ELSE << >>)

relations_to_rewrite == {"child", "collection", "item", "items", "parent", "root", "self"}
relations_to_remove ==
    {"aggregate", "aggregations", "queryables",
     "http:/www.opengis.net/def/rel/ogc/1.0/queryables",
     "search", "service-desc", "service-doc", "conformance"}

\* rewrite_link with the final drop of the rewritten relations left out
rewrite_link_keeps_foreign(link, source, target_location, output_self, output_root) ==
    IF StartsWith(link.href, output_root) THEN [keep |-> TRUE, link |-> link]
    ELSE IF link.rel \in relations_to_rewrite THEN
        IF StartsWith(link.href, source) THEN
            [keep |-> TRUE,
             link |-> IF ~Contains(link.href, target_location)
                      THEN [link EXCEPT !.href =
                               replace_url_location(link.href, source, target_location)]
                      ELSE link]
        ELSE IF link.rel = "parent" THEN
            [keep |-> TRUE,
             link |-> [link EXCEPT !.href = RSplitHead(output_self, "/", 2)]]
        ELSE IF UrlParse(link.href).scheme = S0 /\ UrlParse(link.href).netloc = S0 THEN
            [keep |-> TRUE,
             link |-> [link EXCEPT !.href = UrlJoin(output_self, link.href)]]
        ELSE [keep |-> TRUE, link |-> link]
    ELSE IF link.rel \in relations_to_remove THEN [keep |-> FALSE, link |-> link]
    ELSE [keep |-> TRUE, link |-> link]

\* one iteration of the loop of rewrite_links: whether the link is appended to
\* new_links, and the link object as the iteration leaves it
rewrite_link(link, source, target_location, output_self, output_root) ==
    LET href == link.href
        rel  == link.rel
        parsed_href == UrlParse(href)
    IN  IF StartsWith(href, output_root) THEN [keep |-> TRUE, link |-> link]
        ELSE IF rel \in relations_to_rewrite THEN
            IF StartsWith(href, source) THEN
                [keep |-> TRUE,
                 link |-> IF ~Contains(href, target_location)
                          THEN [link EXCEPT !.href =
                                   replace_url_location(href, source, target_location)]
                          ELSE link]
            ELSE IF rel = "parent" THEN
                [keep |-> TRUE,
                 link |-> [link EXCEPT !.href = RSplitHead(output_self, "/", 2)]]
            ELSE IF StartsWith(href, Strip(output_root, "/")) THEN
                [keep |-> TRUE, link |-> link]
            ELSE IF parsed_href.scheme = S0 /\ parsed_href.netloc = S0 THEN
                [keep |-> TRUE,
                 link |-> [link EXCEPT !.href = UrlJoin(output_self, href)]]
            ELSE [keep |-> FALSE, link |-> link]
        ELSE IF rel \in relations_to_remove THEN [keep |-> FALSE, link |-> link]
        ELSE [keep |-> TRUE, link |-> link]

\* the nested objects after the loop: their link objects were mutated in place
RECURSIVE mutate_nested(_, _, _, _, _)
mutate_nested(node, source, target_location, output_self, output_root) ==
    LET n1 == IF Has(node, "links")
              THEN Put(node, "links",
                       [i \in 1..Len(node.links) |->
                           rewrite_link(node.links[i], source, target_location,
                                        output_self, output_root).link])
              ELSE node
    IN  IF Has(node, "features")
        THEN Put(n1, "features",
                 [i \in 1..Len(node.features) |->
                     mutate_nested(node.features[i], source, target_location,
                                   output_self, output_root)])
        ELSE n1

rewrite_links(stac_data, source, target_location, output_self, output_root) ==
    LET found == find_all_links(stac_data)
        outcomes == [i \in 1..Len(found) |->
                        rewrite_link(found[i], source, target_location,
                                     output_self, output_root)]
        kept == SelectSeq(outcomes, LAMBDA o : o.keep)
        new_links == [i \in 1..Len(kept) |-> kept[i].link]
    IN  Put(mutate_nested(stac_data, source, target_location, output_self, output_root),
            "links", new_links)

add_link_if_missing(stac_data, rel, href) ==
    LET new_link == [rel |-> rel, href |-> href]
    IN  IF ~Has(stac_data, "links") THEN Put(stac_data, "links", <<new_link>>)
        ELSE IF \A i \in 1..Len(stac_data.links) : stac_data.links[i].rel # rel
             THEN Put(stac_data, "links", Append(stac_data.links, new_link))
             ELSE stac_data

add_missing_links(stac_data, new_root, new_self) ==
    add_link_if_missing(add_link_if_missing(stac_data, "root", new_root), "self", new_self)

TXT  == <<".","t","x","t">>
HTML == <<".","h","t","m","l">>

add_license_link(stac_data, href) ==
    LET links == IF Has(stac_data, "links") THEN stac_data.links ELSE << >>
        link_type == IF EndsWith(href, TXT) THEN "text/plain" ELSE "text/html"
    IN  Put(stac_data, "links",
            Append(links, [rel |-> "license", href |-> href, type |-> link_type]))
HTTPS_URL == HTTPS \o <<":","/","/">>

\* the fixed prefix of the mirror key in copy_license_to_eodh
LICENCES_PREFIX ==
    <<"a","p","i","/","c","a","t","a","l","o","g","u","e","/",
      "l","i","c","e","n","c","e","s","/">>

\* What the network and the object store answer to one call of
\* copy_license_to_eodh: "down" the download raised or returned a status other
\* than 200; "head_err" head_object failed with a code other than 404;
\* "put_err" put_object raised; "ok" no call failed.
CopyOutcomes == {"down", "head_err", "put_err", "ok"}

\* copy_license_to_eodh: the href returned, the bucket afterwards, and whether
\* an exception escaped
copy_license_to_eodh(workspace, href, outcome, bkt) ==
    LET filename == LastPiece(href, "/")
        new_path == LICENCES_PREFIX \o workspace \o <<"/">> \o filename
        new_url  == HTTPS_URL \o hosted_zone \o <<"/">> \o new_path
    IN  IF outcome = "down" THEN [href |-> href, bucket |-> bkt, raised |-> FALSE]
        ELSE IF outcome = "head_err" THEN [href |-> href, bucket |-> bkt, raised |-> FALSE]
        ELSE IF new_path \in bkt THEN [href |-> new_url, bucket |-> bkt, raised |-> FALSE]
        ELSE IF outcome = "put_err" THEN [href |-> href, bucket |-> bkt, raised |-> TRUE]
        ELSE [href |-> new_url, bucket |-> bkt \cup {new_path}, raised |-> FALSE]

\* the loop over the links of ensure_license_links when the licence is not in
\* the index; env gives the outcome of each copy_license_to_eodh call in turn
RECURSIVE mirror_license_links(_, _, _, _, _)
mirror_license_links(workspace, links, i, env, bkt) ==
    IF i > Len(links) THEN [links |-> links, bucket |-> bkt, raised |-> FALSE]
    ELSE IF links[i].rel = "license"
            /\ ~StartsWith(links[i].href, HTTPS_URL \o hosted_zone)
    THEN LET r == copy_license_to_eodh(workspace, links[i].href, Head(env), bkt)
         IN  IF r.raised THEN [links |-> links, bucket |-> r.bucket, raised |-> TRUE]
             ELSE mirror_license_links(workspace, [links EXCEPT ![i].href = r.href],
                                       i + 1, Tail(env), r.bucket)
    ELSE mirror_license_links(workspace, links, i + 1, env, bkt)

\* number of copy_license_to_eodh calls the loop can make
CopyCalls(links) ==
    Cardinality({i \in 1..Len(links) :
                    /\ links[i].rel = "license"
                    /\ ~StartsWith(links[i].href, HTTPS_URL \o hosted_zone)})

ensure_license_links(workspace, stac_data, env, bkt) ==
    LET links == IF Has(stac_data, "links") THEN stac_data.links ELSE << >>
        same  == [data |-> stac_data, bucket |-> bkt, raised |-> FALSE]
    IN  IF ~Has(stac_data, "license") THEN same
        ELSE IF stac_data.license = S0 THEN same
        ELSE
        LET found_license == spdx_license_dict_get(casefold(stac_data.license))
        IN  IF found_license # NoneValue THEN
                LET base_url == HTTPS_URL \o hosted_zone \o <<"/">> \o spdx_licence_path
                    text_url == UrlJoin(base_url \o <<"/","t","e","x","t","/">>,
                                        found_license \o TXT)
                    html_url == UrlJoin(base_url \o <<"/","h","t","m","l","/">>,
                                        found_license \o HTML)
                    d1 == IF \A i \in 1..Len(links) : links[i].href # text_url
                          THEN add_license_link(stac_data, text_url) ELSE stac_data
                    \* links is the list object of the document when it had one,
                    \* and a detached empty list otherwise
                    links1 == IF Has(stac_data, "links") THEN d1.links ELSE << >>
                    d2 == IF \A i \in 1..Len(links1) : links1[i].href # html_url
                          THEN add_license_link(d1, html_url) ELSE d1
                IN  [data |-> d2, bucket |-> bkt, raised |-> FALSE]
            ELSE IF ~Has(stac_data, "links") THEN same
            ELSE LET m == mirror_license_links(workspace, links, 1, env, bkt)
                 IN  [data |-> Put(stac_data, "links", m.links),
                      bucket |-> m.bucket, raised |-> m.raised]

\* the href of the first self link, NoneValue when the lookup raises
\* TypeError (no links) or IndexError (no self link)
first_self_link(entry_body) ==
    IF ~Has(entry_body, "links") THEN NoneValue
    ELSE LET selfs == SelectSeq(entry_body.links, LAMBDA l : l.rel = "self")
         IN  IF selfs = << >> THEN NoneValue ELSE selfs[1].href

\* the self link update_file works from: the first self link of the body, or
\* the temporary one built from source and file_name when it has none
source_self(file_name, source, entry_body) ==
    IF first_self_link(entry_body) = NoneValue
    THEN UrlJoin(source, file_name)
    ELSE first_self_link(entry_body)

\* output_self of update_file
computed_self(file_name, source, target_location, entry_body) ==
    replace_url_location(source_self(file_name, source, entry_body), source, target_location)

\* update_file from the call of rewrite_links on: the result once
\* ensure_license_links has returned or raised
update_file_rewrite(source, target_location, output_self, output_root, lic) ==
    IF lic.raised THEN [body |-> lic.data, bucket |-> lic.bucket, raised |-> TRUE]
    ELSE [body |-> rewrite_links(lic.data, source, target_location, output_self,
                                 output_root),
          bucket |-> lic.bucket, raised |-> FALSE]

\* update_file from the validity check of output_self on; entry_body carries a
\* self link
update_file_checked(source, target_location, entry_body, output_self, output_root, workspace, env, bkt) ==
    IF ~is_valid_url(output_self)
    THEN [body |-> entry_body, bucket |-> bkt, raised |-> FALSE]
    ELSE update_file_rewrite(source, target_location, output_self, output_root,
             ensure_license_links(workspace,
                 add_missing_links(entry_body, output_root, output_self), env, bkt))

\* update_file on a JSON object, after delete_sections
update_file_dict(file_name, source, target_location, entry_body, output_root, workspace, env, bkt) ==
    update_file_checked(source, target_location,
        add_link_if_missing(entry_body, "self", source_self(file_name, source, entry_body)),
        computed_self(file_name, source, target_location, entry_body),
        output_root, workspace, env, bkt)

\* LinkProcessor.update_file: the body returned, the bucket afterwards, and
\* whether an exception escaped
update_file(file_name, source, target_location, entry_body, output_root, workspace, env, bkt) ==
    IF ~IsDict(entry_body) THEN [body |-> entry_body, bucket |-> bkt, raised |-> FALSE]
    ELSE update_file_dict(file_name, source, target_location,
                          delete_sections(entry_body), output_root, workspace, env, bkt)
-----------------------------------------------------------------------------
(* The batch handler: main() and process_pulsar_message() of __main__.py  *)

GIT_HARVESTER == <<"g","i","t","-","h","a","r","v","e","s","t","e","r">>
TRANSFORMED   == <<"t","r","a","n","s","f","o","r","m","e","d">>

\* transform_key of __main__.py
main_transform_key(file_name, source, target) ==
    LET transformed_key == ReplaceFirst(file_name, GIT_HARVESTER, TRANSFORMED)
    IN  IF transformed_key = file_name
        THEN TRANSFORMED \o ReplaceAll(file_name, source, target)
        ELSE transformed_key

\* is_valid_url of __main__.py
main_is_valid_url(url) ==
    LET result == UrlParse(url) IN result.scheme # S0 /\ result.netloc # S0

\* What the outside world answers while one key is fetched:
\*   "json"          the body is read and is a JSON object
\*   "not_json"      the body is read and is not valid JSON
\*   "unavailable"   urlopen failed on each of the three attempts, or
\*                   get_object raised ClientError: the getter returns None
\*   "cwl_malformed" the body is a workflow whose CWL script is not valid YAML
FetchOutcomes == {"json", "not_json", "unavailable", "cwl_malformed"}
\* and to put_object / delete_object
StoreOutcomes == {"ok", "ClientError"}

\* the failure a fetch outcome stands for, by the getter the key selects
fetch_fault(key, fetch) ==
    CASE fetch = "unavailable" ->
            IF main_is_valid_url(key) THEN "URLError" ELSE "ClientError"
      [] fetch = "not_json" -> "InvalidJSON"
      [] fetch = "cwl_malformed" -> "InvalidYAML"
      [] OTHER -> "none"

\* update_file of __main__.py, as far as the batch sees it: the exception that
\* escapes it ("none" when it returns) and whether updated_key was written.
\* Every path of a JSON body ends in upload_file_s3, which swallows ClientError.
main_update_file(key, updated_key, fetch, put) ==
    CASE fetch = "unavailable" ->
            \* get_file_contents_as_json: json.loads(None)
            [raised |-> "TypeError", uploaded |-> FALSE]
      [] fetch = "not_json" ->
            \* uploaded without changes, then delete_sections(None)
            [raised |-> "AttributeError", uploaded |-> (put = "ok")]
      [] fetch = "cwl_malformed" ->
            \* workflow_update_stac returns None, then file_json.get("links")
            [raised |-> "AttributeError", uploaded |-> FALSE]
      [] OTHER ->
            [raised |-> "none", uploaded |-> (put = "ok")]

Kinds == <<"added", "updated", "deleted">>
KeysOf(event, k) ==
    CASE k = "added" -> event.added_keys
      [] k = "updated" -> event.updated_keys
      [] OTHER -> event.deleted_keys

NextKind(k) ==
    CASE k = "added" -> "updated" [] k = "updated" -> "deleted" [] OTHER -> "send"

AppendKey(event, k, key) ==
    CASE k = "added" -> [event EXCEPT !.added_keys = Append(@, key)]
      [] k = "updated" -> [event EXCEPT !.updated_keys = Append(@, key)]
      [] OTHER -> [event EXCEPT !.deleted_keys = Append(@, key)]

\* main(): consumer.receive(), then the head of process_pulsar_message: the
\* body is parsed and validated against harvest_schema, output_data is the
\* deep copy with its three lists emptied
Receive ==
    /\ pc = "receive"
    /\ IF msg.valid
       THEN /\ pc' = "process"
            /\ output_data' = [msg EXCEPT !.added_keys = << >>,
                                          !.updated_keys = << >>,
                                          !.deleted_keys = << >>]
            /\ kind' = "added"
            /\ raised' = raised
       ELSE /\ pc' = "except"
            /\ raised' = "ValidationError"
            /\ UNCHANGED <<output_data, kind>>
    /\ idx' = 0
    /\ UNCHANGED <<msg, sent, acks, nacks, calls, faults, store>>
    /\ UNCHANGED lvars
    /\ UNCHANGED xvars

\* one iteration of the loop over added_keys or updated_keys
UpdateKey ==
    /\ pc = "process"
    /\ kind \in {"added", "updated"}
    /\ idx < Len(KeysOf(msg, kind))
    /\ \E fetch \in FetchOutcomes, put \in StoreOutcomes :
        LET key == KeysOf(msg, kind)[idx + 1]
            updated_key == main_transform_key(key, msg.source, msg.target)
            r == main_update_file(key, updated_key, fetch, put)
            wrote == fetch \in {"json", "not_json"}
            f1 == IF fetch_fault(key, fetch) # "none"
                  THEN Append(faults, [kind |-> kind, key |-> key,
                                       fault |-> fetch_fault(key, fetch)])
                  ELSE faults
            f2 == IF wrote /\ put = "ClientError"
                  THEN Append(f1, [kind |-> kind, key |-> key, fault |-> "ClientError"])
                  ELSE f1
        IN  /\ (~wrote) => (put = "ok")
            /\ calls' = Append(calls, [kind |-> kind, key |-> key])
            /\ faults' = f2
            /\ store' = IF r.uploaded THEN store \cup {updated_key} ELSE store
            /\ IF r.raised = "none"
               THEN /\ output_data' = AppendKey(output_data, kind, updated_key)
                    /\ idx' = idx + 1
                    /\ UNCHANGED <<pc, raised>>
               ELSE /\ pc' = "except"
                    /\ raised' = r.raised
                    /\ UNCHANGED <<output_data, idx>>
    /\ UNCHANGED <<msg, kind, sent, acks, nacks>>
    /\ UNCHANGED lvars
    /\ UNCHANGED xvars

\* one iteration of the loop over deleted_keys; delete_file_s3 swallows
\* ClientError
DeleteKey ==
    /\ pc = "process"
    /\ kind = "deleted"
    /\ idx < Len(msg.deleted_keys)
    /\ \E del \in StoreOutcomes :
        LET key == msg.deleted_keys[idx + 1]
            updated_key == main_transform_key(key, msg.source, msg.target)
        IN  /\ calls' = Append(calls, [kind |-> kind, key |-> key])
            /\ faults' = IF del = "ClientError"
                         THEN Append(faults, [kind |-> kind, key |-> key,
                                              fault |-> "ClientError"])
                         ELSE faults
            /\ store' = IF del = "ok" THEN store \ {updated_key} ELSE store
            /\ output_data' = AppendKey(output_data, kind, updated_key)
            /\ idx' = idx + 1
    /\ UNCHANGED <<pc, msg, kind, sent, acks, nacks, raised>>
    /\ UNCHANGED lvars
    /\ UNCHANGED xvars

\* the end of one of the three loops
NextList ==
    /\ pc = "process"
    /\ kind \in {"added", "updated", "deleted"}
    /\ idx = Len(KeysOf(msg, kind))
    /\ kind' = NextKind(kind)
    /\ idx' = 0
    /\ UNCHANGED <<pc, msg, output_data, sent, acks, nacks, raised, calls, faults, store>>
    /\ UNCHANGED lvars
    /\ UNCHANGED xvars

\* producer.send(json.dumps(output_data))
Send ==
    /\ pc = "process"
    /\ kind = "send"
    /\ sent' = Append(sent, output_data)
    /\ pc' = "ack"
    /\ UNCHANGED <<msg, kind, idx, output_data, acks, nacks, raised, calls, faults, store>>
    /\ UNCHANGED lvars
    /\ UNCHANGED xvars

\* main(): consumer.acknowledge(msg) after process_pulsar_message returned
Acknowledge ==
    /\ pc = "ack"
    /\ acks' = acks + 1
    /\ pc' = "done"
    /\ UNCHANGED <<msg, kind, idx, output_data, sent, nacks, raised, calls, faults, store>>
    /\ UNCHANGED lvars
    /\ UNCHANGED xvars

\* main(): the except branch, which acknowledges too
AcknowledgeOnError ==
    /\ pc = "except"
    /\ acks' = acks + 1
    /\ pc' = "done"
    /\ UNCHANGED <<msg, kind, idx, output_data, sent, nacks, raised, calls, faults, store>>
    /\ UNCHANGED lvars
    /\ UNCHANGED xvars
-----------------------------------------------------------------------------
(* The specification of the batch handler                                  *)

\* the longest list of keys of one kind in an inbound event
MaxKeys == 1

Src == HTTPS_URL \o <<"s">>
KeyUrl == Src \o <<"/","c">>
KeyGit == GIT_HARVESTER \o <<"/","c">>
KeyUniverse == {KeyUrl, KeyGit}

\* the lists of distinct keys of length at most MaxKeys
KeyLists ==
    {l \in UNION {[1..n -> KeyUniverse] : n \in 0..MaxKeys} :
        \A i, j \in 1..Len(l) : i # j => l[i] # l[j]}

Messages ==
    [id : {"m"}, bucket_name : {"b"}, source : {Src}, target : {<<"t">>},
     added_keys : KeyLists, updated_keys : KeyLists, deleted_keys : KeyLists,
     valid : BOOLEAN]

IdleDoc == [id |-> "idle"]
IdleCfg == [source |-> S0, target_location |-> S0, output_root |-> S0,
            file_name |-> S0, workspace |-> S0]

LinkIdle ==
    /\ op = "none"
    /\ cfg = IdleCfg
    /\ doc0 = IdleDoc
    /\ prev = IdleDoc
    /\ doc = IdleDoc
    /\ runs = 0
    /\ lerr = "none"
    /\ bucket = {}

BatchIdle ==
    /\ pc = "idle"
    /\ msg = [id |-> "idle"]
    /\ kind = "added"
    /\ idx = 0
    /\ output_data = [id |-> "idle"]
    /\ sent = << >>
    /\ acks = 0
    /\ nacks = 0
    /\ raised = "none"
    /\ calls = << >>
    /\ faults = << >>
    /\ store = {}

FetchIdle == [retries |-> 0, attempts |-> 0, result |-> "idle"]

XIdle ==
    /\ url_fetch = FetchIdle
    /\ trace = << >>
    /\ keys = << >>
    /\ emitted = << >>
    /\ new_key = S0
    /\ workers = << >>
    /\ objects = << >>

Init ==
    /\ pc = "receive"
    /\ msg \in Messages
    /\ kind = "added"
    /\ idx = 0
    /\ output_data = [id |-> "idle"]
    /\ sent = << >>
    /\ acks = 0
    /\ nacks = 0
    /\ raised = "none"
    /\ calls = << >>
    /\ faults = << >>
    /\ store \in {{}, {main_transform_key(KeyUrl, Src, <<"t">>)}}
    /\ LinkIdle
    /\ XIdle

Next ==
    \/ Receive
    \/ UpdateKey
    \/ DeleteKey
    \/ NextList
    \/ Send
    \/ Acknowledge
    \/ AcknowledgeOnError

Spec == Init /\ [][Next]_vars
-----------------------------------------------------------------------------
(* Claims about the batch handler, checked under Spec                      *)

InSeq(seq, x) == \E i \in 1..Len(seq) : seq[i] = x

\* the keys of one kind that the event reports as failed in the given class
\* ("temp_failed_keys" or "perm_failed_keys"); none when it has no failed_files
FailedKeys(event, class, k) ==
    IF Has(event, "failed_files") THEN KeysOf(event.failed_files[class], k) ELSE << >>

\* the inbound event has been handled: process_pulsar_message returned or
\* raised, and main() has acknowledged
Handled == pc = "done" /\ msg.valid

\* the number of outbound lists (success, temp-failed, perm-failed) of kind k
\* that hold the inbound key
Listed(k, key) ==
    LET hit(seq, x) == IF InSeq(seq, x) THEN 1 ELSE 0
    IN  IF sent = << >> THEN 0
        ELSE hit(KeysOf(sent[1], k), main_transform_key(key, msg.source, msg.target))
             + hit(FailedKeys(sent[1], "temp_failed_keys", k), key)
             + hit(FailedKeys(sent[1], "perm_failed_keys", k), key)

\* C1: once the inbound event has been handled, every key of its added_keys,
\* updated_keys and deleted_keys is in exactly one of the outbound success list
\* of that kind (as its transformed key), temp_failed_keys or perm_failed_keys.
C1_BatchAccounting ==
    Handled =>
        \A j \in 1..Len(Kinds) :
            \A i \in 1..Len(KeysOf(msg, Kinds[j])) :
                Listed(Kinds[j], KeysOf(msg, Kinds[j])[i]) = 1

\* a key met a transient object-store error (a botocore ClientError)
TempFailed == \E i \in 1..Len(faults) : faults[i].fault = "ClientError"

\* C2: once the inbound event has been handled, it was negatively acknowledged
\* if and only if some key met a transient failure, and acknowledged otherwise.
C2_AcknowledgementRule ==
    Handled => /\ (nacks > 0) <=> TempFailed
               /\ (acks > 0) <=> ~TempFailed

AllKeysInOrder ==
    [i \in 1..Len(msg.added_keys) |-> [kind |-> "added", key |-> msg.added_keys[i]]]
    \o [i \in 1..Len(msg.updated_keys) |-> [kind |-> "updated", key |-> msg.updated_keys[i]]]
    \o [i \in 1..Len(msg.deleted_keys) |-> [kind |-> "deleted", key |-> msg.deleted_keys[i]]]

\* C3: once the inbound event has been handled, every key of added_keys, then
\* updated_keys, then deleted_keys has been processed exactly once, in list
\* order, whatever happened to the keys before it, and the outbound event has
\* been published exactly once.
C3_PerEventStateMachine ==
    Handled => calls = AllKeysInOrder /\ Len(sent) = 1

\* C4: once the inbound event has been handled, every key that met a failure is
\* reported by its inbound name under temp_failed_keys when the failure was a
\* ClientError and under perm_failed_keys otherwise, and its transformed key is
\* not in the outbound success list.
C4_FailureClassification ==
    Handled =>
        \A i \in 1..Len(faults) :
            LET f == faults[i]
                class == IF f.fault = "ClientError"
                         THEN "temp_failed_keys" ELSE "perm_failed_keys"
            IN  /\ sent # << >>
                /\ InSeq(FailedKeys(sent[1], class, f.kind), f.key)
                /\ ~InSeq(KeysOf(sent[1], f.kind),
                          main_transform_key(f.key, msg.source, msg.target))
-----------------------------------------------------------------------------
(* The specification of the link graph rewriter: LinkProcessor.update_file *)
(* applied to a document, and again to its own output                      *)

\* the most links a document carries besides its self link
MaxLinks == 1
\* the most applications made to one document
MaxRuns == 2

SrcSlash == HTTPS_URL \o <<"s","/">>
SrcBare  == HTTPS_URL \o <<"s">>
RootBare  == HTTPS_URL \o hosted_zone
RootSlash == HTTPS_URL \o hosted_zone \o <<"/">>
Foreign == HTTPS_URL \o <<"x","/">>

\* target_location is output_root joined with the target of the event
Cfgs ==
    {[source |-> src, target_location |-> o.target_location,
      output_root |-> o.output_root, file_name |-> <<"c","/","f">>,
      workspace |-> <<"w">>] :
        src \in {SrcSlash, SrcBare},
        o \in {[output_root |-> RootBare, target_location |-> RootBare \o <<"/","t","/">>],
               [output_root |-> RootSlash, target_location |-> RootSlash \o <<"t">>]}}

Link(rel, href) == [rel |-> rel, href |-> href]

\* the self link of an input document, when it has one: under the source,
\* on another host, or with a scheme that is not http(s)
SelfLinks ==
    {Link("self", SrcSlash \o <<"c","/","f">>),
     Link("self", Foreign \o <<"f">>),
     Link("self", FTP \o <<":","/","/","x","/","f">>)}

\* the canonical licence URLs of the one licence the index holds
CanonicalText == HTTPS_URL \o hosted_zone \o <<"/","s","p","d","x","/","t","e","x","t","/","A","A","L">> \o TXT
CanonicalHtml == HTTPS_URL \o hosted_zone \o <<"/","s","p","d","x","/","h","t","m","l","/","A","A","L">> \o HTML

OtherLinks ==
    {Link("root", SrcSlash),
     Link("root", Foreign),
     Link("parent", Foreign \o <<"p">>),
     Link("child", <<"k">>),
     Link("item", SrcSlash \o <<"c","/","k">>),
     Link("child", HTTPS_URL \o <<"s","x","/","k">>),
     Link("child", RootBare \o <<"x","/","k">>),
     Link("child", Foreign \o <<"k">>),
     Link("search", Foreign \o <<"k">>),
     Link("thumbnail", Foreign \o <<"k">>),
     Link("thumbnail", <<"k">>),
     Link("license", Foreign \o <<"l">>),
     Link("search", RootSlash \o <<"t","/","q">>),
     Link("child", RootSlash \o <<"t","/","k">>),
     Link("child", SrcSlash \o RootSlash \o <<"t">>)}

\* the link of the one nested object modelled
NestedLink == Link("item", SrcSlash \o <<"c","/","n">>)

\* licence identifiers: one the index holds, one it does not
LicenceIds == {<<"A","A","L">>, <<"x","y","z">>}

LinkSeqs(pool, n) == UNION {[1..k -> pool] : k \in 0..n}

MkDoc(links, lic, nested) ==
    LET d0 == [id |-> "d"]
        d1 == IF links = << >> THEN d0 ELSE Put(d0, "links", links)
        d2 == IF lic = << >> THEN d1 ELSE Put(d1, "license", lic[1])
    IN  IF nested THEN Put(d2, "features", <<[links |-> <<NestedLink>>]>>) ELSE d2

\* STAC documents, a document with a conformsTo section, and a body that is
\* not a JSON object
Docs ==
    {MkDoc(s \o o, lic, nested) :
        s \in LinkSeqs(SelfLinks, 1), o \in LinkSeqs(OtherLinks, MaxLinks),
        lic \in LinkSeqs(LicenceIds, 1), nested \in BOOLEAN}
    \cup {Put(MkDoc(<< >>, << >>, FALSE), "conformsTo", "core")}
    \cup {[raw |-> "text"]}

\* the outcomes of the copy_license_to_eodh calls one application can make
CopyEnvs(d) ==
    IF IsDict(d) /\ Has(d, "links") /\ Has(d, "license")
    THEN [1..CopyCalls(d.links) -> CopyOutcomes]
    ELSE {<< >>}

LinkInit ==
    /\ BatchIdle
    /\ XIdle
    /\ op = "none"
    /\ cfg \in Cfgs
    /\ doc0 \in Docs
    /\ prev = doc0
    /\ doc = doc0
    /\ runs = 0
    /\ lerr = "none"
    /\ bucket = {}

\* the document, the bucket and the exception an application leaves behind
Returned(r) ==
    /\ doc' = r.body
    /\ bucket' = r.bucket
    /\ lerr' = IF r.raised THEN "ClientError" ELSE "none"

\* LinkProcessor.update_file applied to the entry body
UpdateFile ==
    /\ runs < MaxRuns
    /\ lerr = "none"
    /\ \E env \in CopyEnvs(doc) :
          Returned(update_file(cfg.file_name, cfg.source, cfg.target_location, doc,
                               cfg.output_root, cfg.workspace, env, bucket))
    /\ prev' = doc
    /\ runs' = runs + 1
    /\ op' = "update_file"
    /\ UNCHANGED <<cfg, doc0>>
    /\ UNCHANGED bvars
    /\ UNCHANGED xvars

LinkNext == UpdateFile

SpecLink == LinkInit /\ [][LinkNext]_vars
-----------------------------------------------------------------------------
(* Claims about the link graph rewriter, checked under SpecLink            *)

LinksOf(d) == IF Has(d, "links") THEN d.links ELSE << >>

HasRel(d, rel) == \E i \in 1..Len(LinksOf(d)) : LinksOf(d)[i].rel = rel

\* the top-level links array of d has a link with this rel and this href
Carries(d, rel, href) ==
    \E i \in 1..Len(LinksOf(d)) : LinksOf(d)[i].rel = rel /\ LinksOf(d)[i].href = href

\* every link the rewriter finds in the document it was given
InputLinks == find_all_links(prev)

\* the last application of update_file was given a JSON object and returned
Applied == op = "update_file" /\ lerr = "none" /\ IsDict(prev)

\* the self URL the last application computed for the document
OutputSelf == computed_self(cfg.file_name, cfg.source, cfg.target_location, prev)

\* the last application went through the rewrite: it returned, and the self
\* URL it computed is an http(s) URL with a host
Rewritten ==
    /\ Applied
    /\ UrlParse(OutputSelf).scheme \in {HTTP, HTTPS}
    /\ UrlParse(OutputSelf).netloc # S0

IsAbsolute(href) == UrlParse(href).scheme # S0

WellFormed(href) == UrlParse(href).scheme # S0 /\ UrlParse(href).netloc # S0

RewriteClass == {"self", "root", "parent", "child", "collection", "item", "items"}
DropClass ==
    {"aggregate", "aggregations", "queryables",
     "http:/www.opengis.net/def/rel/ogc/1.0/queryables",
     "search", "service-desc", "service-doc", "conformance"}

\* C5: after an application that went through the rewrite, the links array has
\* at least one root link and at least one self link, and the href of every
\* link in it either starts with the output root or is the unmodified absolute
\* href of an input link whose relation is neither rewritten nor dropped.
C5_LinkInvariant ==
    Rewritten =>
        /\ HasRel(doc, "root")
        /\ HasRel(doc, "self")
        /\ \A i \in 1..Len(LinksOf(doc)) :
              LET l == LinksOf(doc)[i]
              IN  \/ StartsWith(l.href, cfg.output_root)
                  \/ /\ l.rel \notin RewriteClass \cup DropClass
                     /\ IsAbsolute(l.href)
                     /\ \E k \in 1..Len(InputLinks) :
                           InputLinks[k].rel = l.rel /\ InputLinks[k].href = l.href

\* C6: after an application that went through the rewrite of a document with no
\* license field, every input link whose href starts with the output root is in
\* the links array with the same rel and href; and when the document was the
\* output of an earlier application, the links array is the one it was given.
C6_Idempotence ==
    (Rewritten /\ ~Has(prev, "license")) =>
        /\ \A i \in 1..Len(InputLinks) :
              StartsWith(InputLinks[i].href, cfg.output_root)
                  => Carries(doc, InputLinks[i].rel, InputLinks[i].href)
        /\ (runs >= 2 => LinksOf(doc) = LinksOf(prev))

\* target_location followed by the key, with one separator between them
TargetPlusKey == RStrip(cfg.target_location, "/") \o <<"/">> \o cfg.file_name

\* C7: after an application that went through the rewrite of a document that
\* had no self link or no root link, the links array has a self link and a root
\* link whose hrefs are absolute URLs with a host; a self link that was missing
\* is target_location followed by the key; a root link that was missing is the
\* output root.
C7_Completeness ==
    (Rewritten /\ (~HasRel(prev, "self") \/ ~HasRel(prev, "root"))) =>
        /\ \E i \in 1..Len(LinksOf(doc)) :
              LinksOf(doc)[i].rel = "self" /\ WellFormed(LinksOf(doc)[i].href)
        /\ \E i \in 1..Len(LinksOf(doc)) :
              LinksOf(doc)[i].rel = "root" /\ WellFormed(LinksOf(doc)[i].href)
        /\ (~HasRel(prev, "self") => Carries(doc, "self", TargetPlusKey))
        /\ (~HasRel(prev, "root") => Carries(doc, "root", cfg.output_root))

\* the document names a licence that the index does not hold
LicenceUnresolved(d) ==
    /\ Has(d, "license")
    /\ d.license # S0
    /\ \A n \in SpdxHtmlFiles :
          \/ Len(n) # Len(d.license)
          \/ \E i \in 1..Len(n) :
                /\ n[i] # d.license[i]
                /\ \A k \in 1..Len(Uppers) : {n[i], d.license[i]} # {Uppers[k], Lowers[k]}

\* the URL of the copy of a licence document in the mirror
MirrorOf(href) ==
    HTTPS_URL \o hosted_zone \o <<"/">> \o LICENCES_PREFIX \o cfg.workspace \o <<"/">>
    \o LastPiece(href, "/")

ResolvesTo(rel, href) ==
    /\ rel \in RewriteClass
    /\ \E k \in 1..Len(InputLinks) :
          /\ InputLinks[k].rel = rel
          /\ UrlParse(InputLinks[k].href).scheme = S0
          /\ UrlParse(InputLinks[k].href).netloc = S0
          /\ UrlJoin(OutputSelf, InputLinks[k].href) = href

OneSeparator(a, b) == RStrip(a, "/") \o <<"/">> \o LStrip(b, "/")

\* the URL with the last two segments of its path removed
TwoSegmentsUp(url) ==
    LET u == UrlParse(url)
        segs == Split(u.path, "/")
        up == IF Len(segs) <= 3 THEN S0
              ELSE Join(SubSeq(segs, 1, Len(segs) - 2), "/")
    IN  u.scheme \o <<":","/","/">> \o u.netloc \o up

\* C9: after an application that went through the rewrite, every
\* input link with a rewritten relation and an href not under the output root
\* is in the links array with: target_location and the rest of the href after
\* the source, joined by exactly one separator, when the href starts with the
\* source; else the computed self URL with its last two path segments removed
\* when the rel is parent; else the href resolved against the computed self URL
\* when it has no scheme and no host.
C9_HrefRewrite ==
    Rewritten =>
        \A i \in 1..Len(InputLinks) :
            LET l == InputLinks[i]
            IN  (l.rel \in RewriteClass /\ ~StartsWith(l.href, cfg.output_root)) =>
                IF StartsWith(l.href, cfg.source)
                THEN Carries(doc, l.rel,
                             OneSeparator(cfg.target_location,
                                          SubSeq(l.href, Len(cfg.source) + 1, Len(l.href))))
                ELSE IF l.rel = "parent"
                THEN Carries(doc, l.rel, TwoSegmentsUp(OutputSelf))
                ELSE (UrlParse(l.href).scheme = S0 /\ UrlParse(l.href).netloc = S0)
                     => Carries(doc, l.rel, UrlJoin(OutputSelf, l.href))

-----------------------------------------------------------------------------
(* The specification of the licence resolver: ensure_license_links applied  *)
(* to a document, and again to its result                                  *)

\* the most links a document handed to the licence resolver carries
MaxLicenceLinks == 2

CanonicalTextLink == [rel |-> "license", href |-> CanonicalText, type |-> "text/plain"]
CanonicalHtmlLink == [rel |-> "license", href |-> CanonicalHtml, type |-> "text/html"]

LicenceLinks ==
    {CanonicalTextLink,
     CanonicalHtmlLink,
     Link("license", Foreign \o <<"l">>),
     Link("thumbnail", Foreign \o <<"k">>),
     Link("self", RootSlash \o <<"t","/","c","/","f">>)}

\* the licence field: spellings of the identifier the index holds, one it does
\* not hold, and the empty string
LicenceFields ==
    {<<"a","a","l">>, <<"A","A","L">>, <<"A","a","l">>, <<"x","y","z">>, S0}

LicenceDocs ==
    {MkDoc(l, << >>, FALSE) : l \in LinkSeqs(LicenceLinks, MaxLicenceLinks)}
    \cup {Put(MkDoc(l, << >>, FALSE), "license", f) :
             l \in LinkSeqs(LicenceLinks, MaxLicenceLinks), f \in LicenceFields}

LicenceInit ==
    /\ BatchIdle
    /\ XIdle
    /\ op = "none"
    /\ cfg = [IdleCfg EXCEPT !.workspace = <<"w">>]
    /\ doc0 \in LicenceDocs
    /\ prev = doc0
    /\ doc = doc0
    /\ runs = 0
    /\ lerr = "none"
    /\ bucket = {}

\* the document, the bucket and the exception ensure_license_links leaves behind
Resolved(r) ==
    /\ doc' = r.data
    /\ bucket' = r.bucket
    /\ lerr' = IF r.raised THEN "ClientError" ELSE "none"

\* update_file calls ensure_license_links on the entry body
EnsureLicenseLinks ==
    /\ runs < MaxRuns
    /\ lerr = "none"
    /\ \E env \in CopyEnvs(doc) :
          Resolved(ensure_license_links(cfg.workspace, doc, env, bucket))
    /\ prev' = doc
    /\ runs' = runs + 1
    /\ op' = "ensure_license_links"
    /\ UNCHANGED <<cfg, doc0>>
    /\ UNCHANGED bvars
    /\ UNCHANGED xvars

LicenceNext == EnsureLicenseLinks

SpecLicence == LicenceInit /\ [][LicenceNext]_vars

-----------------------------------------------------------------------------
(* Claims about the licence resolver, checked under SpecLicence            *)

\* the identifier is that of a licence of the index, whatever the case of its
\* letters
InIndex(id) ==
    \E n \in SpdxHtmlFiles :
        /\ Len(n) = Len(id)
        /\ \A i \in 1..Len(n) :
              \/ n[i] = id[i]
              \/ \E k \in 1..Len(Uppers) : {n[i], id[i]} = {Uppers[k], Lowers[k]}

\* the number of links of d with this href
CountHref(d, href) == Cardinality({i \in 1..Len(LinksOf(d)) : LinksOf(d)[i].href = href})

\* C10: for a document whose license identifier is in the index whatever its
\* case, after any number of runs of ensure_license_links: when the document
\* carried neither canonical URL, its links are the ones it had followed by
\* exactly the text/plain link and then the text/html link to the canonical
\* URLs; a run on the result of an earlier run changes nothing; and each
\* canonical URL that the document did not carry more than once is carried
\* exactly once.
C10_LicenseResolution ==
    (op = "ensure_license_links" /\ Has(doc0, "license") /\ InIndex(doc0.license)) =>
        /\ lerr = "none"
        /\ (CountHref(doc0, CanonicalText) = 0 /\ CountHref(doc0, CanonicalHtml) = 0)
              => LinksOf(doc) = LinksOf(doc0) \o <<CanonicalTextLink, CanonicalHtmlLink>>
        /\ runs >= 2 => doc = prev
        /\ CountHref(doc0, CanonicalText) <= 1 => CountHref(doc, CanonicalText) = 1
        /\ CountHref(doc0, CanonicalHtml) <= 1 => CountHref(doc, CanonicalHtml) = 1

\* ensure_license_links has run twice on a document with license "aal", a link
\* of its own and no canonical link, and the document has two more links
C10_Witness ==
    /\ op = "ensure_license_links"
    /\ runs = 2
    /\ Has(doc0, "license")
    /\ doc0.license = <<"a","a","l">>
    /\ Len(LinksOf(doc0)) >= 1
    /\ CountHref(doc0, CanonicalText) = 0
    /\ CountHref(doc0, CanonicalHtml) = 0
    /\ Len(LinksOf(doc)) = Len(LinksOf(doc0)) + 2
    /\ LinksOf(doc)[Len(LinksOf(doc)) - 1].type = "text/plain"
    /\ LinksOf(doc)[Len(LinksOf(doc))].type = "text/html"
-----------------------------------------------------------------------------
(* The key transform of transformer.py and the messager's delete handler    *)

ITEMS_MARKER == <<"/","i","t","e","m","s">>
COLLECTIONS_MARKER == <<"/","c","o","l","l","e","c","t","i","o","n","s">>
JSON_SUFFIX == <<".","j","s","o","n">>
GIT_HARVESTER_PREFIX == <<"g","i","t","-","h","a","r","v","e","s","t","e","r","/">>

\* reformat_key of transformer.py
reformat_key(key) ==
    LET k1 == ReplaceAll(key, ITEMS_MARKER, S0)
        k2 == ReplaceAll(k1, COLLECTIONS_MARKER, S0)
        k3 == IF EndsWith(k2, <<"/">>) THEN SubSeq(k2, 1, Len(k2) - 1) ELSE k2
    IN  IF ~EndsWith(k3, JSON_SUFFIX) THEN k3 \o JSON_SUFFIX ELSE k3

\* the body is attached to the delete action
process_delete_with_body(cat_path, source, target) ==
    <<[file_body |-> cat_path, cat_path |-> cat_path]>>

\* transform_key of transformer.py
transform_key(file_name, source, target) ==
    LET transformed_key == ReplaceFirst(file_name, GIT_HARVESTER_PREFIX, S0)
    IN  reformat_key(IF transformed_key = file_name
                     THEN ReplaceFirst(file_name, source, target)
                     ELSE transformed_key)

\* TransformerMessager.process_delete: the list of actions it returns
process_delete(cat_path, source, target) ==
    <<[file_body |-> NoneValue, cat_path |-> transform_key(cat_path, source, target)]>>

\* the most catalogue paths of one event
MaxPaths == 2

\* source and target of the event
KeyCfgs ==
    {[IdleCfg EXCEPT !.source = c[1], !.target_location = c[2]] :
        c \in {<<<<"/">>, <<"/">>>>, <<<<"h","t","t","p","s",":","/","/","s">>, <<"t">>>>, <<<<"t","e","s","t","/">>, <<"t","e","s","t","-","c","a","t","a","l","o","g","/">>>>}}

\* catalogue paths: a git-harvester key, URL-style keys under the source, keys
\* with a trailing slash or a .json suffix, a key naming git-harvester below
\* its first segment, and keys with a marker around a marker
Paths ==
    {<<"g","i","t","-","h","a","r","v","e","s","t","e","r","/","a","/","b","/","c","o","l","l","e","c","t","i","o","n","s","/","c">>,
     <<"h","t","t","p","s",":","/","/","s","/","c","o","l","l","e","c","t","i","o","n","s","/","c","/","i","t","e","m","s","/","i">>,
     <<"t","e","s","t","/","k","e","y","/","p","a","t","h",".","j","s","o","n">>,
     <<"a","/","x","/">>,
     <<"a","/","g","i","t","-","h","a","r","v","e","s","t","e","r","/","b">>,
     <<"a","/","i","t","/","i","t","e","m","s","e","m","s">>,
     <<"a","/","i","t","/","c","o","l","l","e","c","t","i","o","n","s","e","m","s">>}

PathLists == UNION {[1..n -> Paths] : n \in 1..MaxPaths}

KeysInit ==
    /\ BatchIdle
    /\ op = "none"
    /\ cfg \in KeyCfgs
    /\ doc0 = IdleDoc
    /\ prev = IdleDoc
    /\ doc = IdleDoc
    /\ runs = 0
    /\ lerr = "none"
    /\ bucket = {}
    /\ url_fetch = FetchIdle
    /\ trace = << >>
    /\ keys \in PathLists
    /\ emitted = << >>
    /\ new_key = S0
    /\ workers = << >>
    /\ objects = << >>

\* transform_key applied to the first path of the event
TransformKey ==
    /\ op = "none"
    /\ new_key' = transform_key(keys[1], cfg.source, cfg.target_location)
    /\ op' = "transform_key"
    /\ UNCHANGED <<cfg, doc0, prev, doc, runs, lerr, bucket>>
    /\ UNCHANGED <<url_fetch, trace, keys, emitted, workers, objects>>
    /\ UNCHANGED bvars

\* the messager handles the next deleted key: process_delete
ProcessDelete ==
    /\ Len(emitted) < Len(keys)
    /\ emitted' = emitted \o process_delete(keys[Len(emitted) + 1], cfg.source,
                                            cfg.target_location)
    /\ UNCHANGED lvars
    /\ UNCHANGED <<url_fetch, trace, keys, new_key, workers, objects>>
    /\ UNCHANGED bvars

KeysNext == TransformKey \/ ProcessDelete

SpecKeys == KeysInit /\ [][KeysNext]_vars

-----------------------------------------------------------------------------
(* Claims about keys, checked under SpecKeys                                *)

\* the key with its git-harvester/ prefix removed, or otherwise with the first
\* occurrence of source replaced by target
Relocated(key, source, target) ==
    IF StartsWith(key, GIT_HARVESTER_PREFIX)
    THEN SubSeq(key, Len(GIT_HARVESTER_PREFIX) + 1, Len(key))
    ELSE ReplaceFirst(key, source, target)

\* C17: transform_key("git-harvester/a/b/collections/c", "/", "/") is
\* "a/b/c.json", and for every key the output holds no "/collections" and no
\* "/items", has no trailing slash, ends with ".json" and does not end with
\* ".json.json" unless the relocated key did.
C17_KeyTransform ==
    /\ transform_key(<<"g","i","t","-","h","a","r","v","e","s","t","e","r","/","a","/","b","/","c","o","l","l","e","c","t","i","o","n","s","/","c">>, <<"/">>, <<"/">>) = <<"a","/","b","/","c",".","j","s","o","n">>
    /\ op = "transform_key" =>
          /\ ~Contains(new_key, COLLECTIONS_MARKER)
          /\ ~Contains(new_key, ITEMS_MARKER)
          /\ ~EndsWith(new_key, <<"/">>)
          /\ EndsWith(new_key, JSON_SUFFIX)
          /\ EndsWith(new_key, JSON_SUFFIX \o JSON_SUFFIX)
                => EndsWith(Relocated(keys[1], cfg.source, cfg.target_location),
                            JSON_SUFFIX \o JSON_SUFFIX)

-----------------------------------------------------------------------------
(* get_file_from_url of utils.py and the WorkflowProcessor                 *)
(*                                                                         *)
(* Every value of a workflow document is a string (a sequence of           *)
(* characters), a list or an object, so that "not value" is the emptiness  *)
(* of its domain.  A payload that is None is the payload "raw" NoneValue. *)

\* get_file_from_url gives up when retries reaches this number
MAX_RETRIES == 3

\* what one urlopen(url, timeout=5) ... response.read() does: it returns the
\* body, raises urllib.error.URLError (HTTPError included), or raises another
\* exception (ValueError for an unknown URL type, TimeoutError while reading)
UrlopenOutcomes == {"ok", "URLError", "OtherError"}

\* one call of get_file_from_url(url, retries) for a given outcome of urlopen:
\* the state of the fetch after it
get_file_from_url(f, outcome) ==
    IF f.retries = MAX_RETRIES
    THEN [f EXCEPT !.result = "URLAccessError"]
    ELSE CASE outcome = "ok" ->
                [f EXCEPT !.attempts = @ + 1, !.result = "body"]
           [] outcome = "URLError" ->
                [f EXCEPT !.attempts = @ + 1, !.retries = @ + 1]
           [] OTHER ->
                [f EXCEPT !.attempts = @ + 1, !.result = "OtherError"]

REQUIRED_COLLECTIONS_FIELDS ==
    <<"type", "stac_version", "stac_extensions", "id", "title", "description",
      "keywords", "license", "providers", "extent", "summaries", "links", "assets">>

DEFAULT_EXTENT_FIELD ==
    [spatial |-> [bbox |-> << <<-180, -90, 180, 90>> >>],
     temporal |-> [interval |-> << <<NoneValue, NoneValue>> >>]]

DEFAULT_STAC_VERSION == <<"1",".","0",".","0">>

NOT_AVAILABLE == <<"N","/","A">>
WORKFLOW_PREFIX == <<"w","o","r","k","f","l","o","w","_","_">>
COLLECTION == <<"C","o","l","l","e","c","t","i","o","n">>
WORKFLOW_CLASS == <<"W","o","r","k","f","l","o","w">>
ASSETS == <<"a","s","s","e","t","s">>

\* "not value" for a string, a list or an object
Falsy(v) == DOMAIN v = {}

NoneBody == [raw |-> NoneValue]

\* the missing sub-levels of an extent that is present
extent_missing(extent) ==
    (IF ~Has(extent, "spatial") THEN <<"spatial">>
     ELSE IF ~Has(extent.spatial, "bbox") THEN <<"bbox">> ELSE << >>)
    \o (IF ~Has(extent, "temporal") THEN <<"temporal">>
        ELSE IF ~Has(extent.temporal, "interval") THEN <<"interval">>
        ELSE IF Falsy(extent.temporal.interval) THEN <<"interval">> ELSE << >>)

\* the missing sub-levels of a summaries object that is present
summaries_missing(summaries) ==
    (IF ~Has(summaries, "inputs") \/ Falsy(summaries.inputs) THEN <<"inputs">> ELSE << >>)
    \o (IF ~Has(summaries, "outputs") \/ Falsy(summaries.outputs)
        THEN <<"outputs">> ELSE << >>)

\* one iteration of the loop of workflow_check_missing_fields
field_missing(file_json, field) ==
    IF ~Has(file_json, field) \/ Falsy(file_json[field]) THEN <<field>>
    ELSE IF field = "extent" THEN extent_missing(file_json.extent)
    ELSE IF field = "summaries" THEN summaries_missing(file_json.summaries)
    ELSE << >>

\* WorkflowProcessor.workflow_check_missing_fields
workflow_check_missing_fields(file_json) ==
    Flatten([i \in 1..Len(REQUIRED_COLLECTIONS_FIELDS) |->
                field_missing(file_json, REQUIRED_COLLECTIONS_FIELDS[i])])

\* yaml.safe_load of the fetched script.  A script is modelled by what parsing
\* it gives: a ParserError, another YAML error, or the parsed value, which is
\* an object with a "$graph" list or an object without one.
yaml_safe_load(script) ==
    CASE script.kind = "parser_error" -> [raised |-> "ParserError"]
      [] script.kind = "scanner_error" -> [raised |-> "ScannerError"]
      [] OTHER -> [raised |-> "none", cwl_dict |-> script]

\* the first try block of update_file: "scrape" when cwl_dict is loaded,
\* "defaults" when scrape_cwl is set to False, "return" when it returns None
load_cwl(file_json, fetched, script) ==
    IF ~Has(file_json.assets.cwl_script, "href") THEN "defaults"
    ELSE IF fetched # "body" THEN "defaults"
    ELSE CASE yaml_safe_load(script).raised = "ParserError" -> "return"
           [] yaml_safe_load(script).raised = "ScannerError" -> "defaults"
           [] OTHER -> "scrape"

\* the for/else over cwl_dict["$graph"]: the position of the first node of
\* class Workflow, 0 when the loop ends without one or a node has no class
RECURSIVE find_workflow(_, _)
find_workflow(graph, i) ==
    IF i > Len(graph) THEN 0
    ELSE IF ~Has(graph[i], "class") THEN 0
    ELSE IF graph[i].class = WORKFLOW_CLASS THEN i
    ELSE find_workflow(graph, i + 1)

\* cwl_workflow_position, 0 when update_file returns None in the second try
cwl_workflow_position(cwl_dict) ==
    IF cwl_dict.kind # "graph" THEN 0 ELSE find_workflow(cwl_dict.graph, 1)

\* the identifier is taken from the node as it is
scraped_id_unprefixed(scrape_cwl, node, fallback) ==
    IF scrape_cwl /\ Has(node, "id") THEN node.id ELSE fallback

\* "workflow__" + the id of the workflow node when there is one
scraped_id(scrape_cwl, node, fallback) ==
    IF scrape_cwl /\ Has(node, "id") THEN WORKFLOW_PREFIX \o node.id ELSE fallback

\* summaries.inputs / summaries.outputs copied from the workflow node
scrape_summary(raw, scrape_cwl, node, name) ==
    IF scrape_cwl /\ Has(node, name)
    THEN Put(raw, "summaries", Put(raw.summaries, name, node[name]))
    ELSE raw

\* the other of id and title when it is present and truthy, else a fresh uuid
cross_fill(raw, other, uuid) ==
    IF Has(raw, other) /\ ~Falsy(raw[other]) THEN raw[other] ELSE WORKFLOW_PREFIX \o uuid

\* the else branch of the fill loop: a missing top-level field
fill_top(raw, field, scrape_cwl, node, uuid) ==
    CASE field = "summaries" ->
            scrape_summary(scrape_summary(Put(raw, "summaries", << >>),
                                          scrape_cwl, node, "inputs"),
                           scrape_cwl, node, "outputs")
      [] field = "links" -> Put(raw, "links", << >>)
      [] field = "type" -> Put(raw, "type", COLLECTION)
      [] field = "id" ->
            Put(raw, "id", scraped_id(scrape_cwl, node, cross_fill(raw, "title", uuid)))
      [] field = "title" ->
            Put(raw, "title", scraped_id(scrape_cwl, node, cross_fill(raw, "id", uuid)))
      [] field = "stac_extensions" -> Put(raw, "stac_extensions", << >>)
      [] field = "stac_version" -> Put(raw, "stac_version", DEFAULT_STAC_VERSION)
      [] field = "description" ->
            Put(raw, "description",
                IF scrape_cwl /\ Has(node, "doc") THEN node.doc ELSE NOT_AVAILABLE)
      [] field = "keywords" -> Put(raw, "keywords", <<<<"w","o","r","k","f","l","o","w">>>>)
      [] OTHER -> Put(raw, field, NOT_AVAILABLE)

\* one iteration of the fill loop
fill_field(raw, field, scrape_cwl, node, uuid) ==
    CASE field = "extent" -> Put(raw, "extent", DEFAULT_EXTENT_FIELD)
      [] field = "spatial" ->
            Put(raw, "extent", Put(raw.extent, "spatial", DEFAULT_EXTENT_FIELD.spatial))
      [] field = "bbox" ->
            Put(raw, "extent",
                Put(raw.extent, "spatial",
                    Put(raw.extent.spatial, "bbox", DEFAULT_EXTENT_FIELD.spatial.bbox)))
      [] field = "temporal" ->
            Put(raw, "extent", Put(raw.extent, "temporal", DEFAULT_EXTENT_FIELD.temporal))
      [] field = "interval" ->
            Put(raw, "extent",
                Put(raw.extent, "temporal",
                    Put(raw.extent.temporal, "interval",
                        DEFAULT_EXTENT_FIELD.temporal.interval)))
      [] field = "inputs" -> scrape_summary(raw, scrape_cwl, node, "inputs")
      [] field = "outputs" -> scrape_summary(raw, scrape_cwl, node, "outputs")
      [] OTHER -> fill_top(raw, field, scrape_cwl, node, uuid)

\* the fill loop over missing_fields
RECURSIVE fill_missing(_, _, _, _, _)
fill_missing(raw, missing_fields, scrape_cwl, node, uuid) ==
    IF missing_fields = << >> THEN raw
    ELSE fill_missing(fill_field(raw, Head(missing_fields), scrape_cwl, node, uuid),
                      Tail(missing_fields), scrape_cwl, node, uuid)

\* the href of the first self link becomes source + file_name
RECURSIVE force_self(_, _)
force_self(links, href) ==
    IF links = << >> THEN << >>
    ELSE IF Head(links).rel = "self"
    THEN <<Put(Head(links), "href", href)>> \o Tail(links)
    ELSE <<Head(links)>> \o force_self(Tail(links), href)

\* the self link check at the end of update_file
check_self(raw, source, file_name) ==
    IF Has(raw, "links")
    THEN Put(raw, "links", force_self(raw.links, source \o file_name))
    ELSE raw

\* collections.OrderedDict over REQUIRED_COLLECTIONS_FIELDS: the required
\* fields that are present, and no other
ordered(raw) ==
    [k \in {REQUIRED_COLLECTIONS_FIELDS[i] : i \in 1..Len(REQUIRED_COLLECTIONS_FIELDS)}
           \cap DOMAIN raw |-> raw[k]]

\* update_file from the fill loop on
workflow_complete(file_name, source, file_json, scrape_cwl, node, uuid) ==
    ordered(check_self(fill_missing(file_json, workflow_check_missing_fields(file_json),
                                    scrape_cwl, node, uuid),
                       source, file_name))

\* update_file once cwl_dict is loaded
workflow_scrape(file_name, source, file_json, cwl_dict, position, uuid) ==
    IF position = 0 THEN NoneBody
    ELSE workflow_complete(file_name, source, file_json, TRUE,
                           cwl_dict.graph[position], uuid)

\* update_file of a document with assets.cwl_script
workflow_update(file_name, source, file_json, verdict, script, uuid) ==
    CASE verdict = "return" -> NoneBody
      [] verdict = "defaults" ->
            workflow_complete(file_name, source, file_json, FALSE, << >>, uuid)
      [] OTHER ->
            workflow_scrape(file_name, source, file_json, script,
                            cwl_workflow_position(script), uuid)

\* the test at the head of update_file on a payload that is a str: "in" is
\* the substring test, and file_json["assets"] raises TypeError
workflow_update_str(file_json) ==
    IF file_json.raw = NoneValue THEN [body |-> file_json, raised |-> "TypeError"]
    ELSE IF ~Contains(file_json.raw, ASSETS) THEN [body |-> file_json, raised |-> "none"]
    ELSE [body |-> file_json, raised |-> "TypeError"]

\* the document reaches the fetch of its CWL script
fetches_cwl(file_json) ==
    /\ IsDict(file_json)
    /\ Has(file_json, "assets")
    /\ Has(file_json.assets, "cwl_script")
    /\ Has(file_json.assets.cwl_script, "href")

\* the document carries assets.cwl_script
is_workflow(file_json) ==
    /\ IsDict(file_json)
    /\ Has(file_json, "assets")
    /\ Has(file_json.assets, "cwl_script")

\* WorkflowProcessor.update_file: the value it returns and the exception that
\* escapes it
workflow_update_file(file_name, source, file_json, fetched, script, uuid) ==
    IF ~IsDict(file_json) THEN workflow_update_str(file_json)
    ELSE IF ~is_workflow(file_json) THEN [body |-> file_json, raised |-> "none"]
    ELSE [body |-> workflow_update(file_name, source, file_json,
                                   load_cwl(file_json, fetched, script), script, uuid),
          raised |-> "none"]
-----------------------------------------------------------------------------
(* The specification of the Workflow Synthesizer: update_file applied to a  *)
(* document, with the fetch of its CWL script one call at a time           *)

\* the nodes of a workflow-definition graph
DemoNode == [class |-> WORKFLOW_CLASS, id |-> <<"d","e","m","o">>, inputs |-> << >>, outputs |-> << >>]
ToolNode == [class |-> <<"C","o","m","m","a","n","d","L","i","n","e","T","o","o","l">>, id |-> <<"t","o","o","l">>]
FullNode == [class |-> WORKFLOW_CLASS, id |-> <<"w">>, inputs |-> [x |-> <<"s","t","r","i","n","g">>], outputs |-> [y |-> <<"F","i","l","e">>], doc |-> <<"a","b","o","u","t">>]
BareNode == [class |-> WORKFLOW_CLASS]
ClasslessNode == [id |-> <<"n","c">>]

\* what the URL of the CWL script serves
Scripts ==
    {[kind |-> "parser_error"],
     [kind |-> "scanner_error"],
     [kind |-> "no_graph"],
     [kind |-> "graph", graph |-> <<ToolNode, DemoNode>>],
     [kind |-> "graph", graph |-> <<FullNode, DemoNode>>],
     [kind |-> "graph", graph |-> <<BareNode>>],
     [kind |-> "graph", graph |-> <<ToolNode>>],
     [kind |-> "graph", graph |-> <<ClasslessNode, DemoNode>>]}

CwlAssets == [cwl_script |-> [href |-> Foreign \o <<"w">>]]

\* a document that has only assets.cwl_script.href
OnlyCwl == [assets |-> CwlAssets]

\* a document that supplies every required field
Supplied ==
    [type |-> COLLECTION, stac_version |-> <<"1",".","1",".","0">>, stac_extensions |-> <<<<"e">>>>,
     id |-> <<"i">>, title |-> <<"t">>, description |-> <<"d">>, keywords |-> <<<<"k">>>>,
     license |-> <<"M","I","T">>, providers |-> <<<<"p">>>>,
     extent |-> [spatial |-> [bbox |-> << <<1, 2, 3, 4>> >>],
                 temporal |-> [interval |-> << <<<<"a">>, <<"b">>>> >>]],
     summaries |-> [inputs |-> [a |-> <<"i","n","t">>], outputs |-> [b |-> <<"i","n","t">>],
                    examples |-> <<"e","x">>],
     links |-> <<Link("root", Foreign)>>,
     assets |-> CwlAssets]

\* the fields whose absence or emptiness is modelled
Fillable == {"type", "stac_version", "stac_extensions", "id", "title", "description", "keywords", "license", "providers", "extent", "summaries", "links"}

\* the documents handed to the Workflow Synthesizer
WorkflowDocs ==
    {OnlyCwl, Supplied}
    \cup {Pop(Supplied, f) : f \in Fillable}
    \cup {Put(Supplied, f, << >>) : f \in Fillable}
    \cup {Pop(Pop(Supplied, "id"), "title")}
    \cup {Put(Supplied, "extent", e) :
             e \in {[temporal |-> Supplied.extent.temporal],
                    [spatial |-> [other |-> <<"o">>], temporal |-> Supplied.extent.temporal],
                    [spatial |-> Supplied.extent.spatial],
                    [spatial |-> Supplied.extent.spatial, temporal |-> [other |-> <<"o">>]],
                    [spatial |-> Supplied.extent.spatial, temporal |-> [interval |-> << >>]]}}
    \cup {Put(Supplied, "summaries", s) :
             s \in {[outputs |-> [b |-> <<"i","n","t">>]],
                    [inputs |-> [a |-> <<"i","n","t">>]],
                    [inputs |-> << >>, outputs |-> [b |-> <<"i","n","t">>]]}}
    \cup {Put(Supplied, "links", <<Link("self", Foreign \o <<"f">>)>>),
          Put(Supplied, "renders", <<"r">>),
          Put(Supplied, "assets", [cwl_script |-> [type |-> <<"c","w","l">>]]),
          Put(Supplied, "assets", [thumbnail |-> [href |-> Foreign \o <<"p">>]]),
          Pop(Supplied, "assets"),
          [raw |-> <<"t","e","x","t">>],
          [raw |-> <<"m","y"," ","a","s","s","e","t","s">>]}

\* uuid.uuid4() as the processor sees it
Uuid == <<"u">>

WorkflowCfgs ==
    {[source |-> src, target_location |-> RootBare \o <<"/","t","/">>,
      output_root |-> RootBare, file_name |-> <<"c","/","f">>, workspace |-> <<"w">>,
      script |-> s] : src \in {SrcSlash, SrcBare}, s \in Scripts}

\* update_file is called: a document with assets.cwl_script.href is at the
\* call of get_file_from_url(cwl_href)
WorkflowInit ==
    /\ BatchIdle
    /\ op = "none"
    /\ cfg \in WorkflowCfgs
    /\ doc0 \in WorkflowDocs
    /\ prev = doc0
    /\ doc = doc0
    /\ runs = 0
    /\ lerr = "none"
    /\ bucket = {}
    /\ url_fetch = [FetchIdle EXCEPT !.result = IF fetches_cwl(doc0) THEN "pending" ELSE "idle"]
    /\ trace = << >>
    /\ keys = << >>
    /\ emitted = << >>
    /\ new_key = S0
    /\ workers = << >>
    /\ objects = << >>

\* one call of get_file_from_url: the first one or a recursive one
GetFileFromUrl ==
    /\ op = "none"
    /\ url_fetch.result = "pending"
    /\ \E outcome \in UrlopenOutcomes :
          url_fetch' = get_file_from_url(url_fetch, outcome)
    /\ UNCHANGED lvars
    /\ UNCHANGED <<trace, keys, emitted, new_key, workers, objects>>
    /\ UNCHANGED bvars

\* the value and the exception WorkflowProcessor.update_file leaves behind
Synthesized(r) ==
    /\ doc' = r.body
    /\ lerr' = r.raised

\* WorkflowProcessor.update_file from the return of get_file_from_url on (the
\* whole of it for a document without assets.cwl_script.href)
WorkflowUpdateFile ==
    /\ op = "none"
    /\ url_fetch.result # "pending"
    /\ Synthesized(workflow_update_file(cfg.file_name, cfg.source, doc, url_fetch.result,
                                        cfg.script, Uuid))
    /\ prev' = doc
    /\ runs' = runs + 1
    /\ op' = "workflow_update_file"
    /\ UNCHANGED <<cfg, doc0, bucket>>
    /\ UNCHANGED xvars
    /\ UNCHANGED bvars

WorkflowNext == GetFileFromUrl \/ WorkflowUpdateFile

SpecWorkflow == WorkflowInit /\ [][WorkflowNext]_vars

-----------------------------------------------------------------------------
(* Claims about the Workflow Synthesizer and the fetch, under SpecWorkflow  *)

\* the graph the script parses to, << >> when it parses to none
GraphOf(script) == IF script.kind = "graph" THEN script.graph ELSE << >>

\* the positions of the nodes of class Workflow
WorkflowNodes(graph) ==
    {i \in 1..Len(graph) : Has(graph[i], "class") /\ graph[i].class = WORKFLOW_CLASS}

\* the script was fetched and every node of its graph up to the first Workflow
\* node has a class
Scraped ==
    /\ url_fetch.result = "body"
    /\ WorkflowNodes(GraphOf(cfg.script)) # {}
    /\ \A i \in 1..Len(GraphOf(cfg.script)) :
          (\A j \in WorkflowNodes(GraphOf(cfg.script)) : i < j)
              => Has(GraphOf(cfg.script)[i], "class")

\* the first Workflow node of the graph
WorkflowNode ==
    LET g == GraphOf(cfg.script)
    IN  g[CHOOSE i \in WorkflowNodes(g) : \A j \in WorkflowNodes(g) : i <= j]

\* update_file has run on a document with assets.cwl_script
Synthesis == op = "workflow_update_file" /\ is_workflow(prev)

Absent(d, f) == ~Has(d, f) \/ Falsy(d[f])

\* C11: when the script of a workflow document is fetched and its graph has a
\* Workflow node, update_file returns a document; for the document that has
\* only assets.cwl_script.href and the node with id demo, inputs {} and
\* outputs {}, its id is workflow__demo, its type Collection, its
\* extent.spatial.bbox the whole-Earth default and its summaries.inputs {};
\* and a missing id or title is workflow__ + the id of the node when the node
\* has one.
C11_WorkflowCompletion ==
    (Synthesis /\ Scraped) =>
        /\ lerr = "none"
        /\ IsDict(doc)
        /\ (prev = OnlyCwl /\ WorkflowNode = DemoNode) =>
              /\ doc.id = <<"w","o","r","k","f","l","o","w","_","_","d","e","m","o">>
              /\ doc.type = <<"C","o","l","l","e","c","t","i","o","n">>
              /\ doc.extent.spatial.bbox = << <<-180, -90, 180, 90>> >>
              /\ doc.summaries.inputs = << >>
        /\ \A f \in {"id", "title"} :
              (Absent(prev, f) /\ Has(WorkflowNode, "id"))
                  => doc[f] = <<"w","o","r","k","f","l","o","w","_","_">> \o WorkflowNode.id

\* the document with only assets.cwl_script.href has been completed from a
\* graph whose Workflow node is demo
C11_Witness ==
    /\ Synthesis
    /\ Scraped
    /\ prev = OnlyCwl
    /\ WorkflowNode = DemoNode
    /\ IsDict(doc)
    /\ doc.id = <<"w","o","r","k","f","l","o","w","_","_","d","e","m","o">>
    /\ doc.title = <<"w","o","r","k","f","l","o","w","_","_","d","e","m","o">>

\* the sub-levels of extent and summaries that update_file fills
Kept(before, after, f) ==
    CASE f = "extent" ->
            /\ Has(before.extent, "spatial") /\ Has(before.extent.spatial, "bbox")
                  => after.extent.spatial = before.extent.spatial
            /\ Has(before.extent, "temporal") /\ Has(before.extent.temporal, "interval")
               /\ ~Falsy(before.extent.temporal.interval)
                  => after.extent.temporal = before.extent.temporal
      [] f = "summaries" ->
            \A s \in DOMAIN before.summaries :
                ~Falsy(before.summaries[s])
                    => Has(after.summaries, s) /\ after.summaries[s] = before.summaries[s]
      [] OTHER -> after[f] = before[f]

\* update_file has returned a document for a document with assets.cwl_script
Completed == Synthesis /\ lerr = "none" /\ IsDict(doc)

\* C12: in the document update_file returns for a workflow document, every
\* required field that was present and truthy keeps its value (for extent and
\* summaries: every sub-level that was present), and a document that supplied
\* every required field is returned as it was.
C12_NeverOverwrites ==
    Completed =>
        /\ \A i \in 1..Len(REQUIRED_COLLECTIONS_FIELDS) :
              LET f == REQUIRED_COLLECTIONS_FIELDS[i]
              IN  ~Absent(prev, f) => Has(doc, f) /\ Kept(prev, doc, f)
        /\ workflow_check_missing_fields(prev) = << >> => doc = prev

\* the script is not valid YAML, or its graph has no Workflow node
EntryFailure ==
    /\ url_fetch.result = "body"
    /\ \/ cfg.script.kind \in {"parser_error", "scanner_error"}
       \/ cfg.script.kind = "graph" /\ WorkflowNodes(cfg.script.graph) = {}

\* C13: when the script is not valid YAML or its graph has no Workflow node,
\* update_file raises nothing and the document it hands on holds every field
\* the document had, with the value it had.
C13_EntryFailure ==
    (Synthesis /\ EntryFailure) =>
        /\ lerr = "none"
        /\ IsDict(doc)
        /\ \A f \in DOMAIN prev : Has(doc, f) /\ doc[f] = prev[f]

\* C19: get_file_from_url makes at most MAX_RETRIES fetch attempts; when it
\* has ended, either an attempt succeeded and it returned the body at once, or
\* every attempt failed and it raised URLAccessError.
C19_BoundedFetchRetry ==
    /\ url_fetch.attempts <= MAX_RETRIES
    /\ url_fetch.result \in {"idle", "pending", "body", "URLAccessError"}
    /\ url_fetch.result = "body" => url_fetch.attempts = url_fetch.retries + 1
    /\ url_fetch.result = "URLAccessError" => url_fetch.attempts = MAX_RETRIES
-----------------------------------------------------------------------------
(* The RenderProcessor (the Render Annotator)                              *)

RENDER_EXTENSION_URL == <<"h","t","t","p","s",":","/","/","s","t","a","c","-","e","x","t","e","n","s","i","o","n","s",".","g","i","t","h","u","b",".","i","o","/","r","e","n","d","e","r","/","v","1",".","0",".","0","/","s","c","h","e","m","a",".","j","s","o","n">>

\* the object update_file assigns to file_body["renders"]
RENDERS ==
    [rgb |-> [title |-> <<"R","G","B">>,
              assets |-> <<<<"c","o","g">>>>,
              bidx |-> <<1, 2, 3>>,
              rescale |-> << <<0, 100>>, <<0, 100>>, <<0, 100>> >>,
              resampling |-> <<"n","e","a","r","e","s","t">>,
              tilematrixsets |-> [WebMercatorQuad |-> <<0, 30>>]]]

\* dict.get(key): the value, None when the key is absent
Get(d, k) == IF Has(d, k) THEN d[k] ELSE NoneValue

\* x in lst
InList(x, lst) == \E i \in 1..Len(lst) : lst[i] = x

\* os.environ.get("RENDERABLE_COLLECTIONS").split(","): env is the state of
\* the variable, set to a value or not set (then .split raises AttributeError)
renderable_collections(env) == Split(env.value, ",")

\* RenderProcessor.is_renderable: the "and" evaluates the allow-list only for
\* a document of type Collection
is_renderable(file_body, env) ==
    IF Get(file_body, "type") # COLLECTION THEN [value |-> FALSE, raised |-> "none"]
    ELSE IF ~env.set THEN [value |-> FALSE, raised |-> "AttributeError"]
    ELSE [value |-> InList(Get(file_body, "id"), renderable_collections(env)),
          raised |-> "none"]

\* RenderProcessor.add_missing_fields
add_missing_fields(file_body) ==
    IF Get(file_body, "stac_extensions") = NoneValue \/ Falsy(Get(file_body, "stac_extensions"))
    THEN Put(file_body, "stac_extensions", << >>)
    ELSE file_body

\* the extension URL appended to a list that has it already
with_render_extension_appended(file_body) ==
    Put(file_body, "stac_extensions", Append(file_body.stac_extensions, RENDER_EXTENSION_URL))

\* if render_extension_url not in file_body["stac_extensions"]: append it
with_render_extension(file_body) ==
    IF InList(RENDER_EXTENSION_URL, file_body.stac_extensions) THEN file_body
    ELSE Put(file_body, "stac_extensions", Append(file_body.stac_extensions, RENDER_EXTENSION_URL))

\* the branch of update_file for a renderable document
annotate(file_body) ==
    Put(with_render_extension(add_missing_fields(file_body)), "renders", RENDERS)

\* RenderProcessor.update_file: the value it returns and the exception that
\* escapes it
render_update_file(file_body, env) ==
    IF ~IsDict(file_body) THEN [body |-> file_body, raised |-> "none"]
    ELSE IF is_renderable(file_body, env).raised # "none"
         THEN [body |-> file_body, raised |-> is_renderable(file_body, env).raised]
    ELSE IF is_renderable(file_body, env).value
         THEN [body |-> annotate(file_body), raised |-> "none"]
    ELSE [body |-> file_body, raised |-> "none"]

\* the states of the environment variable RENDERABLE_COLLECTIONS
RenderableEnvs ==
    {[set |-> FALSE],
     [set |-> TRUE, value |-> <<"s","e","n","t","i","n","e","l","2","_","a","r","d">>],
     [set |-> TRUE, value |-> <<"a",",","s","e","n","t","i","n","e","l","2","_","a","r","d">>],
     [set |-> TRUE, value |-> << >>]}

RenderCfgs ==
    {[source |-> SrcSlash, target_location |-> RootBare \o <<"/","t","/">>,
      output_root |-> RootBare, file_name |-> <<"c","/","f">>, workspace |-> <<"w">>,
      renderable |-> env] : env \in RenderableEnvs}

\* the values of type, id, stac_extensions and renders; << >> of absent fields
RenderTypes == {<<COLLECTION>>, <<<<"C","a","t","a","l","o","g">>>>, << >>}
RenderIds == {<<<<"s","e","n","t","i","n","e","l","2","_","a","r","d">>>>, <<<<"a">>>>, <<<<"o","t","h","e","r">>>>, <<<< >>>>, << >>}
RenderExtensions ==
    {<< >>,
     << << >> >>,
     << <<<<"e">>>> >>,
     << <<RENDER_EXTENSION_URL>> >>,
     << <<<<"e">>, RENDER_EXTENSION_URL>> >>,
     << <<RENDER_EXTENSION_URL, <<"e">>>> >>,
     << <<RENDER_EXTENSION_URL, RENDER_EXTENSION_URL>> >>}
RenderRenders == {<< >>, <<[custom |-> <<"r">>]>>}

\* the object with the fields whose value is given
Fields(type, id, extensions, renders) ==
    LET given == {k \in {"type", "id", "stac_extensions", "renders"} :
                    CASE k = "type" -> type # << >>
                      [] k = "id" -> id # << >>
                      [] k = "stac_extensions" -> extensions # << >>
                      [] OTHER -> renders # << >>}
    IN  [k \in given \cup {"title"} |->
            CASE k = "type" -> type[1]
              [] k = "id" -> id[1]
              [] k = "stac_extensions" -> extensions[1]
              [] k = "renders" -> renders[1]
              [] OTHER -> <<"t">>]

\* the documents handed to the Render Annotator
RenderDocs ==
    {Fields(t, i, e, r) : t \in RenderTypes, i \in RenderIds,
                          e \in RenderExtensions, r \in RenderRenders}
    \cup {[raw |-> <<"t","e","x","t">>]}

RenderInit ==
    /\ BatchIdle
    /\ XIdle
    /\ op = "none"
    /\ cfg \in RenderCfgs
    /\ doc0 \in RenderDocs
    /\ prev = doc0
    /\ doc = doc0
    /\ runs = 0
    /\ lerr = "none"
    /\ bucket = {}

\* the value and the exception RenderProcessor.update_file leaves behind
Annotated(r) ==
    /\ doc' = r.body
    /\ lerr' = r.raised

\* RenderProcessor.update_file applied to the document, then to its output
RenderUpdateFile ==
    /\ runs < MaxRuns
    /\ lerr = "none"
    /\ Annotated(render_update_file(doc, cfg.renderable))
    /\ prev' = doc
    /\ runs' = runs + 1
    /\ op' = "render_update_file"
    /\ UNCHANGED <<cfg, doc0, bucket>>
    /\ UNCHANGED xvars
    /\ UNCHANGED bvars

SpecRender == RenderInit /\ [][RenderUpdateFile]_vars

-----------------------------------------------------------------------------
(* Claims about the Render Annotator, under SpecRender                      *)

\* the number of times x is in the list lst
RECURSIVE Count(_, _)
Count(x, lst) ==
    IF lst = << >> THEN 0
    ELSE (IF Head(lst) = x THEN 1 ELSE 0) + Count(x, Tail(lst))

\* the allow-list, empty when none is configured
AllowList == IF cfg.renderable.set THEN renderable_collections(cfg.renderable) ELSE << >>

\* the document has type Collection and an id of the allow-list
OnAllowList(d) ==
    /\ IsDict(d)
    /\ Has(d, "type") /\ d.type = COLLECTION
    /\ Has(d, "id") /\ InList(d.id, AllowList)

\* stac_extensions of the document, [] when absent or empty
ExtensionsOf(d) == IF Has(d, "stac_extensions") THEN d.stac_extensions ELSE << >>

\* update_file has been applied to prev and gave doc
Annotation == op = "render_update_file"

\* the documents differ in stac_extensions and renders at most
SameButRendering(a, b) ==
    /\ DOMAIN b = DOMAIN a \cup {"stac_extensions", "renders"}
    /\ \A k \in DOMAIN a \ {"stac_extensions", "renders"} : b[k] = a[k]

-----------------------------------------------------------------------------
(* The Transform Orchestrator: transform and update_file of transformer.py *)

CATALOG == <<"C","a","t","a","l","o","g">>

\* bool(value) of a value that may be None
Truthy(v) == v # NoneValue /\ ~Falsy(v)

\* get_new_catalog_id_from_target without the rstrip of the target
get_new_catalog_id_unstripped(target) ==
    LET parts == Split(target, "/")
    IN  IF parts[Len(parts)] = S0 THEN NoneValue ELSE parts[Len(parts)]

\* get_new_catalog_id_from_target
get_new_catalog_id_from_target(target) ==
    LET parts == Split(RStrip(target, "/"), "/")
    IN  IF parts[Len(parts)] = S0 THEN NoneValue ELSE parts[Len(parts)]

\* the loop of is_this_root_catalog over cat_links from position i on, with
\* the hrefs found so far: it stops as soon as both are truthy
RECURSIVE scan_root_self(_, _, _, _)
scan_root_self(cat_links, i, root_href, self_href) ==
    IF i > Len(cat_links) \/ (Truthy(root_href) /\ Truthy(self_href))
    THEN [root_href |-> root_href, self_href |-> self_href]
    ELSE IF Get(cat_links[i], "rel") = "root"
         THEN scan_root_self(cat_links, i + 1, Get(cat_links[i], "href"), self_href)
    ELSE IF Get(cat_links[i], "rel") = "self"
         THEN scan_root_self(cat_links, i + 1, root_href, Get(cat_links[i], "href"))
    ELSE scan_root_self(cat_links, i + 1, root_href, self_href)

\* is_this_root_catalog from "root_href = None" on
same_root_and_self(found) ==
    IF ~Truthy(found.root_href) \/ ~Truthy(found.self_href) THEN FALSE
    ELSE found.root_href = found.self_href

is_this_root_catalog(entry_body) ==
    IF ~Has(entry_body, "links") \/ Falsy(entry_body.links) THEN FALSE
    ELSE same_root_and_self(scan_root_self(entry_body.links, 1, NoneValue, NoneValue))

update_catalog_id(entry_body, target) ==
    IF Get(entry_body, "type") # CATALOG \/ ~is_this_root_catalog(entry_body) THEN entry_body
    ELSE IF Truthy(get_new_catalog_id_from_target(target))
         THEN Put(entry_body, "id", get_new_catalog_id_from_target(target))
    ELSE entry_body

\* the value None as get_patch_from_s3 returns it
NoPatch == [kind |-> "None"]

\* get_patch_from_s3: None, or the patch read from the patch store; found is
\* what s3_client.get_object and json.loads give for the patch key
get_patch_from_s3(source_bucket, file_name, found) ==
    IF ~Truthy(source_bucket) THEN NoPatch
    ELSE IF Len(Split(file_name, "/")) < 2 THEN NoPatch
    ELSE IF found.kind = "patch" THEN found
    ELSE NoPatch

\* the exceptions of jsonpatch that derive from jsonpatch.JsonPatchException;
\* jsonpointer.JsonPointerException does not
JsonPatchExceptions == {"JsonPatchConflict", "JsonPatchTestFailed", "InvalidJsonPatch"}

\* JsonPointer.to_last for a pointer of one or two reference tokens: the
\* object that holds the last token
to_last(obj, path) ==
    IF Len(path) = 1 THEN [subobj |-> obj, raised |-> "none"]
    ELSE IF Has(obj, path[1]) THEN [subobj |-> obj[path[1]], raised |-> "none"]
    ELSE [subobj |-> obj, raised |-> "JsonPointerException"]

\* obj with the object that holds the last token replaced
from_last(obj, path, subobj) ==
    IF Len(path) = 1 THEN subobj ELSE Put(obj, path[1], subobj)

\* the operation applied to the object that holds the last token
apply_to_last(subobj, part, operation) ==
    CASE operation.op = "add" ->
            [subobj |-> Put(subobj, part, operation.value), raised |-> "none"]
      [] operation.op = "remove" ->
            IF Has(subobj, part) THEN [subobj |-> Pop(subobj, part), raised |-> "none"]
            ELSE [subobj |-> subobj, raised |-> "JsonPatchConflict"]
      [] operation.op = "replace" ->
            IF Has(subobj, part)
            THEN [subobj |-> Put(subobj, part, operation.value), raised |-> "none"]
            ELSE [subobj |-> subobj, raised |-> "JsonPatchConflict"]
      [] operation.op = "test" ->
            IF Has(subobj, part) /\ subobj[part] = operation.value
            THEN [subobj |-> subobj, raised |-> "none"]
            ELSE [subobj |-> subobj, raised |-> "JsonPatchTestFailed"]
      [] OTHER -> [subobj |-> subobj, raised |-> "InvalidJsonPatch"]

\* the result of one operation once the holder of its last token is known
applied_at(obj, operation, last, r) ==
    IF r.raised # "none" THEN [obj |-> obj, raised |-> r.raised]
    ELSE [obj |-> from_last(obj, operation.path, r.subobj), raised |-> "none"]

\* PatchOperation.apply once to_last has returned or raised: a pointer that
\* does not resolve fails a test operation and raises JsonPointerException
\* from any other
applied_from(obj, operation, last) ==
    IF last.raised # "none"
    THEN [obj |-> obj,
          raised |-> IF operation.op = "test" THEN "JsonPatchTestFailed" ELSE last.raised]
    ELSE applied_at(obj, operation, last,
                    apply_to_last(last.subobj, operation.path[Len(operation.path)],
                                  operation))

\* PatchOperation.apply: add, remove, replace and test on object members
apply_operation(obj, operation) == applied_from(obj, operation, to_last(obj, operation.path))

RECURSIVE json_patch_apply(_, _)

\* JsonPatch.apply after one operation: the rest is applied to what it gave,
\* unless it raised
json_patch_rest(r, rest) ==
    IF r.raised # "none" THEN r ELSE json_patch_apply(r.obj, rest)

\* JsonPatch.apply on the deep copy of the document: the operations in order,
\* up to the first that raises
json_patch_apply(obj, patch) ==
    IF patch = << >> THEN [obj |-> obj, raised |-> "none"]
    ELSE json_patch_rest(apply_operation(obj, Head(patch)), Tail(patch))

\* the try block of apply_patch once patch_obj.apply has returned or raised
caught(original, r) ==
    IF r.raised = "none" THEN [body |-> r.obj, raised |-> "none"]
    ELSE IF r.raised \in JsonPatchExceptions THEN [body |-> original, raised |-> "none"]
    ELSE [body |-> original, raised |-> r.raised]

\* apply_patch: the value returned and the exception that escapes
apply_patch(original, patch) == caught(original, json_patch_apply(original, patch))

\* transform from "if patch_data" on: None and the empty list are falsy
patched(entry_body, patch_data) ==
    IF patch_data.kind = "patch" /\ patch_data.data # << >>
    THEN apply_patch(entry_body, patch_data.data)
    ELSE [body |-> entry_body, raised |-> "none"]

\* the first block of transform: entry_body.get raises AttributeError for a
\* payload that is a str
check_for_patch(bucket_name, file_name, entry_body, found) ==
    IF ~IsDict(entry_body) THEN [body |-> entry_body, raised |-> "AttributeError"]
    ELSE IF Get(entry_body, "type") = COLLECTION
         THEN patched(entry_body, get_patch_from_s3(bucket_name, file_name, found))
    ELSE [body |-> entry_body, raised |-> "none"]

\* a call binds its keyword arguments to the parameters of the function: every
\* required parameter must be given, and a keyword that names no parameter
\* needs **kwargs
Binds(signature, keywords) ==
    /\ signature.required \subseteq keywords
    /\ signature.var_keyword \/ keywords \subseteq signature.required

\* the parameters of the update_file of each processor (self aside)
Signature(processor) ==
    CASE processor = "WorkflowProcessor" ->
            [required |-> {"file_name", "source", "file_json"}, var_keyword |-> TRUE]
      [] processor = "LinkProcessor" ->
            [required |-> {"file_name", "source", "target_location", "entry_body",
                           "output_root", "workspace"}, var_keyword |-> TRUE]
      [] OTHER ->
            [required |-> {"file_name", "source", "target_location", "file_body",
                           "output_root"}, var_keyword |-> TRUE]

\* the parameters of transform
TransformSignature ==
    [required |-> {"self", "file_name", "entry_body", "source", "target", "output_root",
                   "workspace"}, var_keyword |-> FALSE]

\* the keywords of the call of transform in process_update_body
ProcessUpdateBodyKeywords ==
    {"processors", "file_name", "entry_body", "source", "target", "output_root",
     "workspace", "s3_client"}

\* the body and the exception of LinkProcessor.update_file
link_result(r) == [body |-> r.body, raised |-> IF r.raised THEN "ClientError" ELSE "none"]

\* processor.update_file(**kw) once the keywords are bound; env is what the
\* processor meets outside the document
bound_update_file(processor, kw, env) ==
    CASE processor = "WorkflowProcessor" ->
            workflow_update_file(kw.file_name, kw.source, kw.file_json, env.fetched,
                                 env.script, Uuid)
      [] processor = "LinkProcessor" ->
            link_result(update_file(kw.file_name, kw.source, kw.target_location,
                                    kw.entry_body, kw.output_root, kw.workspace,
                                    env.copies, {}))
      [] OTHER -> render_update_file(kw.file_body, env.renderable)

\* processor.update_file(file_name=..., source=..., target_location=...,
\* entry_body=..., output_root=...)
processor_update_file(processor, kw, env) ==
    IF ~Binds(Signature(processor), DOMAIN kw)
    THEN [body |-> kw.entry_body, raised |-> "TypeError"]
    ELSE bound_update_file(processor, kw, env)

\* json.dumps(entry_body): a str that holds the document
json_dumps(entry_body) == [raw |-> <<"j","s","o","n">>, json |-> entry_body]

\* the end of update_file of transformer.py
dumped(entry_body) == IF IsDict(entry_body) THEN json_dumps(entry_body) ELSE entry_body

RECURSIVE run_processors(_, _, _, _)

\* the loop of update_file once the first of the processors left has returned
\* or raised
processor_returned(processors, kw, env, ran, r) ==
    IF r.raised # "none" THEN [body |-> kw.entry_body, raised |-> r.raised, ran |-> ran]
    ELSE run_processors(Tail(processors), [kw EXCEPT !.entry_body = r.body], env,
                        Append(ran, [step |-> Head(processors), body |-> r.body]))

\* the loop of update_file of transformer.py from the processors left on; ran
\* lists the processors that have returned, each with what it returned
run_processors(processors, kw, env, ran) ==
    IF processors = << >>
    THEN [body |-> dumped(kw.entry_body), raised |-> "none",
          ran |-> Append(ran, [step |-> "dumps", body |-> dumped(kw.entry_body)])]
    ELSE processor_returned(processors, kw, env, ran,
                            processor_update_file(Head(processors), kw, env))

\* update_file of transformer.py
transformer_update_file(file_name, source, target_location, entry_body, output_root, processors, env) ==
    run_processors(processors,
                   [file_name |-> file_name, source |-> source,
                    target_location |-> target_location, entry_body |-> entry_body,
                    output_root |-> output_root],
                   env, << >>)

\* LinkProcessor(workspace): the argument becomes s3_client, and __init__
\* calls s3_client.list_objects_v2; a str has no such method, and without an
\* argument the call goes to the boto3 client
link_processor_init(workspace, env) ==
    IF Truthy(workspace) THEN "AttributeError"
    ELSE IF env.listing = "ok" THEN "none"
    ELSE env.listing

\* transform once update_file has returned or raised
chain_returned(steps, r) == [body |-> r.body, raised |-> r.raised, trace |-> steps \o r.ran]

\* transform from the list of processors on
transform_chain(file_name, source, target_location, entry_body, output_root, workspace, env, steps) ==
    IF link_processor_init(workspace, env) # "none"
    THEN [body |-> entry_body, raised |-> link_processor_init(workspace, env), trace |-> steps]
    ELSE chain_returned(steps,
             transformer_update_file(file_name, source, target_location, entry_body,
                 output_root, <<"WorkflowProcessor", "LinkProcessor", "RenderProcessor">>,
                 env))

\* transform once the catalog id is corrected
transform_corrected(file_name, patched_body, entry_body, source, target, output_root, workspace, env) ==
    transform_chain(file_name, source, UrlJoin(output_root, target), entry_body,
                    output_root, workspace, env,
                    <<[step |-> "patch", body |-> patched_body],
                      [step |-> "update_catalog_id", body |-> entry_body]>>)

\* transform once the patch step has returned p
transform_patched(file_name, p, source, target, output_root, workspace, env) ==
    IF p.raised # "none" THEN [body |-> p.body, raised |-> p.raised, trace |-> << >>]
    ELSE transform_corrected(file_name, p.body, update_catalog_id(p.body, target), source,
                             target, output_root, workspace, env)

\* transform: the value returned, the exception that escapes, and the steps
\* completed, each with the document it left
transform(self, file_name, entry_body, source, target, output_root, workspace, env) ==
    transform_patched(file_name,
                      check_for_patch(Get(self.input_change_msg, "bucket_name"), file_name,
                                      entry_body, env.patch),
                      source, target, output_root, workspace, env)
-----------------------------------------------------------------------------
(* The specification of the Transform Orchestrator: transform called on an  *)
(* entry body, and process_update_body of the messager                     *)

\* process_update_body once transform has returned or raised
process_transformed(self, r, cat_path, source, target) ==
    IF r.raised # "none" THEN [actions |-> << >>, raised |-> r.raised]
    ELSE [actions |-> <<[file_body |-> r.body,
                         bucket |-> Get(self.input_change_msg, "bucket_name"),
                         cat_path |-> transform_key(cat_path, source, target)]>>,
          raised |-> "none"]

\* process_update_body: the actions returned and the exception that escapes;
\* the call of transform gives the keywords processors and s3_client
process_update_body(self, entry_body, cat_path, source, target, output_root, env) ==
    IF ~Binds(TransformSignature, ProcessUpdateBodyKeywords)
    THEN [actions |-> << >>, raised |-> "TypeError"]
    ELSE process_transformed(self,
             transform(self, cat_path, entry_body, source, target, output_root,
                       Get(self.input_change_msg, "workspace"), env),
             cat_path, source, target)

\* the most operations in a patch
MaxOps == 2

\* the operations of the patches in the patch store
PatchOperations ==
    {[op |-> "add", path |-> <<"title">>, value |-> <<"n">>],
     [op |-> "replace", path |-> <<"summaries", "a">>, value |-> <<"n">>],
     [op |-> "remove", path |-> <<"gone">>],
     [op |-> "add", path |-> <<"missing", "b">>, value |-> <<"n">>]}

Patches == UNION {[1..n -> PatchOperations] : n \in 0..MaxOps}

\* what s3_client.get_object and json.loads give for the patch key
PatchStore ==
    {[kind |-> "NoSuchKey"], [kind |-> "ClientError"], [kind |-> "Exception"]}
    \cup {[kind |-> "patch", data |-> p] : p \in Patches}

\* what the processors meet outside the document
TransformEnvs ==
    {[patch |-> p, listing |-> l, fetched |-> "body",
      script |-> [kind |-> "graph", graph |-> <<DemoNode>>],
      renderable |-> [set |-> TRUE, value |-> <<"s","e","n","t","i","n","e","l","2","_","a","r","d">>], copies |-> << >>] :
        p \in PatchStore, l \in {"ok", "ClientError"}}

\* the workspace of the event and the outcome of list_objects_v2
Workspaces(env) == IF env.listing = "ok" THEN {<<"w">>, NoneValue} ELSE {NoneValue}

TransformCfgs ==
    {[source |-> src, target |-> t, output_root |-> RootBare, file_name |-> f,
      workspace |-> w, bucket_name |-> b, env |-> e] :
        src \in {SrcSlash, SrcBare}, t \in {<<"t","/">>, <<"/">>},
        f \in {<<"c","/","f">>, <<"f">>}, b \in {<<"b">>, NoneValue},
        e \in TransformEnvs, w \in {<<"w">>, NoneValue}}

\* the entry bodies handed to transform
PlainCollection ==
    [type |-> COLLECTION, id |-> <<"i">>, title |-> <<"t">>, summaries |-> [a |-> <<"x">>]]
WorkflowCollection == Put(Supplied, "links", <<Link("self", Foreign \o <<"f">>)>>)
RootCatalog ==
    [type |-> CATALOG, id |-> <<"o","l","d">>,
     links |-> <<Link("root", SrcSlash), Link("self", SrcSlash)>>]
ChildCatalog ==
    [type |-> CATALOG, id |-> <<"o","l","d">>,
     links |-> <<Link("root", SrcSlash), Link("self", SrcSlash \o <<"c">>)>>]
Item == [type |-> <<"F","e","a","t","u","r","e">>, id |-> <<"i">>, title |-> <<"t">>]

TransformDocs ==
    {PlainCollection, WorkflowCollection, RootCatalog, ChildCatalog, Item,
     [id |-> <<"i">>], [raw |-> <<"t","e","x","t">>], [raw |-> <<"m","y"," ","a","s","s","e","t","s">>]}

\* the messager that handles the event
Messager(c) == [input_change_msg |-> [bucket_name |-> c.bucket_name, workspace |-> c.workspace]]

TransformInit ==
    /\ BatchIdle
    /\ XIdle
    /\ op = "none"
    /\ cfg \in {c \in TransformCfgs : c.workspace \in Workspaces(c.env)}
    /\ doc0 \in TransformDocs
    /\ prev = doc0
    /\ doc = doc0
    /\ runs = 0
    /\ lerr = "none"
    /\ bucket = {}

\* the value, the exception and the completed steps transform leaves behind
Transformed(r) ==
    /\ doc' = r.body
    /\ lerr' = r.raised
    /\ trace' = r.trace

\* transform called with its own parameters
Transform ==
    /\ op = "none"
    /\ Transformed(transform(Messager(cfg), cfg.file_name, doc, cfg.source, cfg.target,
                             cfg.output_root, cfg.workspace, cfg.env))
    /\ prev' = doc
    /\ runs' = runs + 1
    /\ op' = "transform"
    /\ UNCHANGED <<cfg, doc0, bucket>>
    /\ UNCHANGED <<url_fetch, keys, emitted, new_key, workers, objects>>
    /\ UNCHANGED bvars

\* the actions and the exception process_update_body leaves behind
Processed(r) ==
    /\ emitted' = r.actions
    /\ lerr' = r.raised

\* TransformerMessager.process_update_body for the entry
ProcessUpdateBody ==
    /\ op = "none"
    /\ Processed(process_update_body(Messager(cfg), doc, cfg.file_name, cfg.source,
                                     cfg.target, cfg.output_root, cfg.env))
    /\ prev' = doc
    /\ runs' = runs + 1
    /\ op' = "process_update_body"
    /\ UNCHANGED <<cfg, doc0, doc, bucket>>
    /\ UNCHANGED <<url_fetch, trace, keys, new_key, workers, objects>>
    /\ UNCHANGED bvars

TransformNext == Transform \/ ProcessUpdateBody

SpecTransform == TransformInit /\ [][TransformNext]_vars

-----------------------------------------------------------------------------
(* Claims about the Transform Orchestrator, under SpecTransform             *)

\* transform has been called on prev
Orchestrated == op = "transform"

\* the names of the steps completed, in order
StepsRun == [i \in 1..Len(trace) |-> trace[i].step]

\* the href of the first self link of a document, << >> when it has none
SelfHrefs(d) ==
    IF IsDict(d) /\ Has(d, "links")
    THEN {d.links[i].href : i \in {j \in 1..Len(d.links) : d.links[j].rel = "self"}}
    ELSE {}

\* C14: for every entry that is a JSON object, transform completes the steps
\* patch, catalog id correction, WorkflowProcessor, LinkProcessor,
\* RenderProcessor and serialization in that order and raises nothing; for a
\* workflow document every self href of the serialized document starts with
\* target_location.
C14_OrchestratorOrdering ==
    (Orchestrated /\ IsDict(prev)) =>
        /\ lerr = "none"
        /\ StepsRun = <<"patch", "update_catalog_id", "WorkflowProcessor", "LinkProcessor",
                        "RenderProcessor", "dumps">>
        /\ is_workflow(prev) =>
              /\ Has(doc, "json")
              /\ SelfHrefs(doc.json) # {}
              /\ \A h \in SelfHrefs(doc.json) :
                    StartsWith(h, UrlJoin(cfg.output_root, cfg.target))

\* C15: for an entry body that is not a JSON object, transform raises nothing
\* and returns the payload unchanged.
C15_NonJsonPayloads ==
    (Orchestrated /\ ~IsDict(prev)) =>
        /\ lerr = "none"
        /\ doc = prev

\* the patch the patch step of transform applies to prev, << >> when it
\* applies none
PatchApplied ==
    IF IsDict(prev) /\ Get(prev, "type") = COLLECTION
       /\ get_patch_from_s3(cfg.bucket_name, cfg.file_name, cfg.env.patch).kind = "patch"
    THEN cfg.env.patch.data
    ELSE << >>

\* the document the patch step left, prev when the step did not complete
AfterPatch == IF trace # << >> THEN trace[1].body ELSE prev

\* an exception left transform in the patch step
PatchStepRaised == lerr # "none" /\ trace = << >>

\* the document with the whole patch applied, or the document as it was
AllOrNothing(original, r) == IF r.raised = "none" THEN r.obj ELSE original

\* C16: for an entry that is a JSON object, the patch step of transform
\* raises nothing; when a patch is applied and every operation succeeds the
\* document that goes on is the document with all operations applied; in
\* every other case (an operation fails, no patch, no Collection) it is the
\* document as it was.
C16_PatchAtomicity ==
    (Orchestrated /\ IsDict(prev)) =>
        /\ ~PatchStepRaised
        /\ AfterPatch = AllOrNothing(prev, json_patch_apply(prev, PatchApplied))
-----------------------------------------------------------------------------
(* The frame of the link graph rewriter, checked under SpecLink            *)

\* the top-level fields whose value holds nested objects with links arrays
NestedHolders == {"features"}

\* the top-level fields of the input that the rewriter does not own
Uninterpreted == DOMAIN prev \ {"links"}

\* C21 as stated: every top-level field of the input other than links is in
\* the output of LinkProcessor.update_file with an identical value.
C21_PassThroughAsStated ==
    Applied =>
        \A f \in Uninterpreted : Has(doc, f) /\ doc[f] = prev[f]

\* C21: update_file removes the top-level field conformsTo; every other
\* top-level field of the input besides links is in the output, with an
\* identical value unless it holds nested objects carrying links arrays
\* (their link objects are rewritten in place); this also holds when the
\* rewrite is aborted for an invalid self URL.
C21_PassThrough ==
    Applied =>
        /\ ~Has(doc, "conformsTo")
        /\ \A f \in Uninterpreted \ {"conformsTo"} :
              /\ Has(doc, f)
              /\ f \notin NestedHolders => doc[f] = prev[f]

\* an application dropped conformsTo and kept the other fields
C21_Witness ==
    /\ Applied
    /\ Has(prev, "conformsTo")
    /\ ~Has(doc, "conformsTo")
    /\ doc.id = prev.id
-----------------------------------------------------------------------------
(* The specification of the self URL check of LinkProcessor.update_file    *)

\* a key of the source, and a file name that is a URL outside the source
FileNames == {<<"c","/","f">>, <<"f","t","p",":","/","/","x","/","f">>}

SelfCfgs ==
    {[source |-> src, target_location |-> o.target_location,
      output_root |-> o.output_root, file_name |-> f, workspace |-> <<"w">>] :
        src \in {SrcSlash, SrcBare}, f \in FileNames,
        o \in {[output_root |-> RootBare, target_location |-> RootBare \o <<"/","t","/">>],
               [output_root |-> RootSlash, target_location |-> RootSlash \o <<"t">>]}}

\* self links under the source: a plain one, two with an empty path segment,
\* one with no path; and self links that are not http(s) URLs with a host
CheckedSelfLinks ==
    {Link("self", SrcSlash \o <<"c","/","f">>),
     Link("self", SrcSlash \o <<"c","/","/","f">>),
     Link("self", SrcBare \o <<"/","/","f">>),
     Link("self", SrcBare),
     Link("self", HTTPS \o <<":","/","/","/","f">>),
     Link("self", FTP \o <<":","/","/","x","/","f">>),
     Link("self", <<"c","/","f">>)}

\* documents with no links, with a self link, with a root link only, and
\* with a conformsTo section
SelfDocs ==
    {[id |-> "d"], [id |-> "d", conformsTo |-> "core"],
     [id |-> "d", links |-> <<Link("root", SrcSlash)>>]}
    \cup {[id |-> "d", links |-> <<l>>] : l \in CheckedSelfLinks}
    \cup {[id |-> "d", links |-> <<l, Link("child", SrcSlash \o <<"c","/","k">>)>>] :
             l \in CheckedSelfLinks}

SelfInit ==
    /\ BatchIdle
    /\ XIdle
    /\ op = "none"
    /\ cfg \in SelfCfgs
    /\ doc0 \in SelfDocs
    /\ prev = doc0
    /\ doc = doc0
    /\ runs = 0
    /\ lerr = "none"
    /\ bucket = {}

SelfNext == UpdateFile

SpecSelf == SelfInit /\ [][SelfNext]_vars

\* the last application computed a self URL that is_valid_url rejects
Aborted == Applied /\ ~is_valid_url(OutputSelf)

\* C22: when the computed output self URL is invalid, update_file returns the
\* document with its links array exactly as in the input: no link added,
\* removed or modified (and no links array created).
C22_ValidationAbort ==
    Aborted => (Has(doc, "links") <=> Has(prev, "links")) /\ LinksOf(doc) = LinksOf(prev)

\* the path has an empty segment between two separators (a double slash)
HasEmptySegment(path) ==
    LET parts == Split(path, "/")
    IN  \E i \in 2..(Len(parts) - 1) : parts[i] = S0

\* C28: is_valid_url accepts the computed self URL only if its scheme is http
\* or https, its host is non-empty and its path has no empty segment, so no
\* document goes through the rewrite against a self URL with a double slash
\* in its path.
C28_SelfUrlValidation ==
    Applied /\ is_valid_url(OutputSelf) =>
        /\ UrlParse(OutputSelf).scheme \in {HTTP, HTTPS}
        /\ UrlParse(OutputSelf).netloc # S0
        /\ ~HasEmptySegment(UrlParse(OutputSelf).path)
-----------------------------------------------------------------------------
(* Nested links arrays of the link graph rewriter, checked under SpecLink  *)

\* the links arrays of the nested objects of d, in order
NestedArrays(d) ==
    IF Has(d, "features")
    THEN [i \in 1..Len(d.features) |-> LinksOf(d.features[i])]
    ELSE << >>

\* the links of an input array that the last application keeps, rewritten
Survivors(links) ==
    LET outcomes == [i \in 1..Len(links) |->
                        rewrite_link(links[i], cfg.source, cfg.target_location,
                                     OutputSelf, cfg.output_root)]
        kept == SelectSeq(outcomes, LAMBDA o : o.keep)
    IN  [i \in 1..Len(kept) |-> kept[i].link]

\* C27: after an application that went through the rewrite, every nested
\* links array holds exactly the rewritten survivors of its own input links,
\* and no link that came from a nested links array is in the top-level links
\* array.
C27_NestedLinkArrays ==
    Rewritten =>
        /\ Len(NestedArrays(doc)) = Len(NestedArrays(prev))
        /\ \A i \in 1..Len(NestedArrays(prev)) :
              /\ NestedArrays(doc)[i] = Survivors(NestedArrays(prev)[i])
              /\ \A j \in 1..Len(Survivors(NestedArrays(prev)[i])) :
                    LET l == Survivors(NestedArrays(prev)[i])[j]
                    IN  Carries(prev, l.rel, l.href) \/ ~Carries(doc, l.rel, l.href)
-----------------------------------------------------------------------------
(* The specification of concurrent licence mirroring: two workers run      *)
(* copy_license_to_eodh step by step against one licence mirror bucket     *)

\* new_path of copy_license_to_eodh: the key of the mirrored object
new_path(workspace, href) == LICENCES_PREFIX \o workspace \o <<"/">> \o LastPiece(href, "/")

\* the URL copy_license_to_eodh returns for a mirrored licence
mirrored_url(workspace, href) ==
    HTTPS_URL \o hosted_zone \o <<"/">> \o new_path(workspace, href)

\* s3_client.head_object: the object is there, or ClientError with code 404
head_object(objs, key) == IF key \in DOMAIN objs THEN "found" ELSE "404"

\* put_object adding the body to what the key holds
put_object_appended(objs, key, body) ==
    [k \in DOMAIN objs \cup {key} |->
        IF k # key THEN objs[k]
        ELSE IF key \in DOMAIN objs THEN objs[key] \o body ELSE body]

\* s3_client.put_object: the key holds the whole body, whatever it held
put_object(objs, key, body) ==
    [k \in DOMAIN objs \cup {key} |-> IF k = key THEN body ELSE objs[k]]

\* any failed existence check lets the upload go ahead
after_head_upload_on_error(code, href, new_url) ==
    IF code = "found"
    THEN [pc |-> "done", result |-> new_url, fault |-> "none"]
    ELSE [pc |-> "put", result |-> NoneValue, fault |-> "none"]

\* copy_license_to_eodh after head_object: return the mirrored URL when the
\* object exists, return href on a ClientError other than 404, go on to the
\* upload on 404
after_head(code, href, new_url) ==
    IF code = "found"
    THEN [pc |-> "done", result |-> new_url, fault |-> "none"]
    ELSE IF code # "404"
    THEN [pc |-> "done", result |-> href, fault |-> "head"]
    ELSE [pc |-> "put", result |-> NoneValue, fault |-> "none"]

Workers == {"w1", "w2"}

\* the licence documents the workers are asked to mirror
MirrorHrefs == {Foreign \o <<"l">>, Foreign \o <<"m">>}

\* what a download can return as the content of the licence document
Bodies == {<<"a","b">>, <<"c","d">>}

\* an object mirrored by an earlier run
ExistingBody == <<"o","l","d">>

MirrorWorkspace == <<"w">>

\* a worker about to call copy_license_to_eodh(workspace, href)
Called(href) ==
    [pc |-> "get", href |-> href, content |-> NoneValue, result |-> NoneValue,
     fault |-> "none", head |-> "none", put |-> FALSE, existed |-> FALSE,
     raised |-> FALSE]

MirrorInit ==
    /\ BatchIdle
    /\ LinkIdle
    /\ url_fetch = FetchIdle
    /\ trace = << >>
    /\ keys = << >>
    /\ emitted = << >>
    /\ new_key = S0
    /\ workers \in [Workers -> {Called(h) : h \in MirrorHrefs}]
    /\ objects \in {<< >>,
                    put_object(<< >>, new_path(MirrorWorkspace, Foreign \o <<"l">>),
                               ExistingBody)}

KeyOf(w) == new_path(MirrorWorkspace, workers[w].href)

\* requests.get(href, timeout=5): it raises, answers with a status other than
\* 200, or answers 200 with the content of the document
RequestsGet(w) ==
    /\ workers[w].pc = "get"
    /\ \/ \E f \in {"download", "status"} :
             workers' = [workers EXCEPT ![w].pc = "done", ![w].fault = f,
                                        ![w].result = workers[w].href,
                                        ![w].existed = KeyOf(w) \in DOMAIN objects]
       \/ \E c \in Bodies :
             workers' = [workers EXCEPT ![w].pc = "head", ![w].content = c,
                                        ![w].existed = KeyOf(w) \in DOMAIN objects]
    /\ UNCHANGED objects
    /\ UNCHANGED bvars
    /\ UNCHANGED lvars
    /\ UNCHANGED <<url_fetch, trace, keys, emitted, new_key>>

\* s3_client.head_object(Bucket, Key=new_path) and the except clause
HeadObject(w) ==
    /\ workers[w].pc = "head"
    /\ \E code \in {head_object(objects, KeyOf(w)), "error"} :
          LET r == after_head(code, workers[w].href,
                              mirrored_url(MirrorWorkspace, workers[w].href))
          IN  workers' = [workers EXCEPT ![w].pc = r.pc, ![w].result = r.result,
                                         ![w].fault = r.fault, ![w].head = code]
    /\ UNCHANGED objects
    /\ UNCHANGED bvars
    /\ UNCHANGED lvars
    /\ UNCHANGED <<url_fetch, trace, keys, emitted, new_key>>

\* s3_client.put_object(Bucket, Key=new_path, Body=content), then the return
PutObject(w) ==
    /\ workers[w].pc = "put"
    /\ \/ /\ objects' = put_object(objects, KeyOf(w), workers[w].content)
          /\ workers' = [workers EXCEPT ![w].pc = "done", ![w].put = TRUE,
                            ![w].result = mirrored_url(MirrorWorkspace, workers[w].href)]
       \/ /\ workers' = [workers EXCEPT ![w].pc = "done", ![w].fault = "put",
                                        ![w].raised = TRUE]
          /\ UNCHANGED objects
    /\ UNCHANGED bvars
    /\ UNCHANGED lvars
    /\ UNCHANGED <<url_fetch, trace, keys, emitted, new_key>>

MirrorNext ==
    \/ \E w \in Workers : RequestsGet(w)
    \/ \E w \in Workers : HeadObject(w)
    \/ \E w \in Workers : PutObject(w)

SpecMirror == MirrorInit /\ [][MirrorNext]_vars
-----------------------------------------------------------------------------
(* Claims about licence mirroring, checked under SpecMirror                *)

Done(w) == workers[w].pc = "done"

MirroredUrlOf(w) == mirrored_url(MirrorWorkspace, workers[w].href)

\* C24: when the mirrored object already exists at the time of the call, the
\* fetch and the upload are both skipped and the href returned is the
\* mirrored URL, whether or not the original href can be downloaded.
C24_IdempotentMirroring ==
    \A w \in Workers :
        Done(w) /\ workers[w].existed =>
            /\ workers[w].result = MirroredUrlOf(w)
            /\ workers[w].content = NoneValue
            /\ ~workers[w].put

Uploaded(key) == {workers[w].content : w \in {v \in Workers : workers[v].put /\ KeyOf(v) = key}}

-----------------------------------------------------------------------------
(* The reordering step of the Workflow Synthesizer, checked under          *)
(* SpecWorkflow                                                            *)

\* the fields of the canonical STAC Collection order
CanonicalFields ==
    {REQUIRED_COLLECTIONS_FIELDS[i] : i \in 1..Len(REQUIRED_COLLECTIONS_FIELDS)}

\* C29: in the document update_file returns for a workflow document, every
\* top-level field of the input that is outside the canonical list (renders, a
\* custom field) is still present with the same value.
C29_ReorderLosesNothing ==
    Completed =>
        \A f \in DOMAIN prev \ CanonicalFields :
            Has(doc, f) /\ doc[f] = prev[f]
-----------------------------------------------------------------------------
(* The specification of the catalog id correction: update_catalog_id       *)
(* applied to an entry body, and again to its result                       *)

\* the most links of a document handed to update_catalog_id
MaxCatalogLinks == 3

CatalogHrefA == SrcSlash \o <<"a">>
CatalogHrefB == SrcSlash \o <<"b">>

CatalogLinks ==
    {Link("root", CatalogHrefA), Link("root", CatalogHrefB), Link("root", S0),
     Link("self", CatalogHrefA), Link("self", CatalogHrefB), Link("self", S0),
     Link("child", CatalogHrefA)}

\* the target of the event
Targets == {<<"t","/">>, <<"a","/","t">>, <<"a","/","i">>, <<"/">>, S0}

CatalogTypes == {CATALOG, COLLECTION}

\* documents with and without a type, an id and links
CatalogDocs ==
    {[id |-> <<"i">>, title |-> "x"], [title |-> "x", type |-> CATALOG],
     [title |-> "x", type |-> CATALOG,
      links |-> <<Link("self", CatalogHrefA), Link("root", CatalogHrefA)>>]}
    \cup {[id |-> <<"i">>, title |-> "x", type |-> t, links |-> l] :
             t \in CatalogTypes, l \in LinkSeqs(CatalogLinks, MaxCatalogLinks)}

CatalogInit ==
    /\ BatchIdle
    /\ XIdle
    /\ op = "none"
    /\ cfg \in {[target |-> t] : t \in Targets}
    /\ doc0 \in CatalogDocs
    /\ prev = doc0
    /\ doc = doc0
    /\ runs = 0
    /\ lerr = "none"
    /\ bucket = {}

\* transform calls update_catalog_id(entry_body, target)
UpdateCatalogId ==
    /\ runs < MaxRuns
    /\ doc' = update_catalog_id(doc, cfg.target)
    /\ prev' = doc
    /\ runs' = runs + 1
    /\ op' = "update_catalog_id"
    /\ UNCHANGED <<cfg, doc0, lerr, bucket>>
    /\ UNCHANGED bvars
    /\ UNCHANGED xvars

CatalogNext == UpdateCatalogId

SpecCatalogId == CatalogInit /\ [][CatalogNext]_vars

\* the hrefs of the links of d with this relation
HrefsOf(d, rel) ==
    {LinksOf(d)[i].href : i \in {j \in 1..Len(LinksOf(d)) : LinksOf(d)[j].rel = rel}}

\* the last segment of the target once its trailing slashes are removed
TargetLastSegment == LastPiece(RStrip(cfg.target, "/"), "/")

\* the result of the last call, given whether the id is to be overwritten
Corrected(overwrite) ==
    op = "update_catalog_id" =>
        IF overwrite THEN doc = Put(prev, "id", TargetLastSegment) ELSE doc = prev

LatestHref(links, k, rel) ==
    LET seen == {i \in 1..k : links[i].rel = rel}
    IN  IF seen = {} THEN NoneValue
        ELSE links[CHOOSE i \in seen : \A j \in seen : j <= i].href

\* both hrefs are known and non-empty after the first k links
Settled(links, k) ==
    /\ LatestHref(links, k, "root") \notin {NoneValue, S0}
    /\ LatestHref(links, k, "self") \notin {NoneValue, S0}

\* where the scan of the links stops: the first position at which both hrefs
\* are non-empty, the end of the links otherwise
StopsAt(links) ==
    IF \E k \in 1..Len(links) : Settled(links, k)
    THEN CHOOSE k \in 1..Len(links) :
            Settled(links, k) /\ \A j \in 1..(k - 1) : ~Settled(links, j)
    ELSE Len(links)

\* the scan ends with a non-empty root href and a non-empty self href that
\* are equal
DetectedRoot(d) ==
    /\ Settled(LinksOf(d), StopsAt(LinksOf(d)))
    /\ LatestHref(LinksOf(d), StopsAt(LinksOf(d)), "root")
          = LatestHref(LinksOf(d), StopsAt(LinksOf(d)), "self")

-----------------------------------------------------------------------------
(* The body of the output file action, checked under SpecTransform         *)

=============================================================================
